---- MODULE Spec2Model ----
(***************************************************************************)
(* State-machine model of the rebel extension harness (src/cmnd):          *)
(*   - the hook dispatcher            (cmnd/hooks.py)                      *)
(*   - the agent orchestrator         (cmnd/agent_mode.py)                 *)
(*   - the MCP client session         (cmnd/mcp_client.py)                 *)
(*   - the MCP server                 (cmnd/mcp_server.py)                 *)
(* Each component has its own specification (SpecHooks, SpecAgent,         *)
(* SpecClient, SpecServer) over the shared variables; a component that a   *)
(* specification does not exercise stays in its initial state.             *)
(***************************************************************************)
EXTENDS Integers, Sequences, FiniteSets, TLC

VARIABLES
    registry,       \* hooks._registry: sequence of HookRegistration records
    nextId,         \* identity of the next HookRegistration object created
    lastFire,       \* observation of the latest hooks.fire call (NoFire if none)
    hookCall,       \* the latest registry call: its name argument and return value
    agentPc,        \* where run_agent stands (its input() calls are the waits)
    session,        \* the AgentSession of the run (NoSession before planning)
    activeSession,  \* agent_mode._active_session is not None
    autoApprove,    \* the auto_approve argument of the run in progress
    pos,            \* position of the for loop of run_agent in session.steps
    plannerRaw,     \* text returned by _call_ollama to the run in progress
    plannerSteps,   \* the "steps" list of the planner's JSON document
    entered,        \* _execute_step calls of this run: [pos, vetoed, asked]
    calls,          \* collaborator calls of this run: [pos, target, ok]
    faults,         \* adverse environment choices made in this run
    runResult,      \* what run_agent returned ("none" while it has not)
    audit,          \* Captain's Log records written by this run
    sessionId,      \* MCPSession.session_id as characters (<<>> when None)
    sent,           \* requests the latest client operation put on the wire
    clientResult,   \* what the latest client operation returned or raised
    served,         \* the server's answers the latest operation consumed
    sessions,       \* mcp_server._sessions: session id -> its "calls" count
    nextSid,        \* the session id the next handshake issues
    backlog,        \* requests sent to the server and not yet taken up
    reqCount,       \* requests sent so far
    serverPc,       \* "running" while the server thread is in subprocess.run
    current,        \* the rebel_run request the server thread is serving
    lockHeld,       \* mcp_server._lock is held
    procs,          \* rebel_run calls whose host-assistant process is alive
    replies,        \* answers the server has sent, in order
    wrapped,        \* the latest call of a wrapped host operation: what it did
    watching,       \* watch_mode._watching
    activeTask,     \* watch_mode._active_task
    loops,          \* the rebel-watch threads started so far: where each stands
    yoloActive,     \* yolo._YOLO_ACTIVE
    allowlist,      \* bash_tools.AUTO_APPROVED as (pattern, label) entries
    planMode,       \* plan_mode._PLAN_MODE_ENABLED
    ioYes,          \* coder.io.yes
    yoloBefore,     \* the safeguards as they were when YOLO mode was activated
    yoloCoder       \* the coder cmd_yolo closes over: "none", "bare" or "io"

hookVars == <<registry, nextId, lastFire, hookCall>>
agentVars == <<agentPc, session, activeSession, autoApprove, pos, plannerRaw,
               plannerSteps, entered, calls, faults, runResult, audit>>

clientVars == <<sessionId, sent, clientResult, served>>
serverVars == <<sessions, nextSid, backlog, reqCount, serverPc, current,
                lockHeld, procs, replies>>

wrapVars == <<wrapped>>
watchVars == <<watching, activeTask, loops>>
yoloVars == <<yoloActive, allowlist, planMode, ioYes, yoloBefore, yoloCoder>>

\* what the actions of one component leave alone
hooksFrame == <<agentVars, clientVars, serverVars, wrapVars, watchVars, yoloVars>>
agentFrame == <<hookVars, clientVars, serverVars, wrapVars, watchVars, yoloVars>>
clientFrame == <<hookVars, agentVars, serverVars, wrapVars, watchVars, yoloVars>>
serverFrame == <<hookVars, agentVars, clientVars, wrapVars, watchVars, yoloVars>>
wrapFrame == <<hookVars, agentVars, clientVars, serverVars, watchVars, yoloVars>>
watchFrame == <<hookVars, agentVars, clientVars, serverVars, wrapVars, yoloVars>>
yoloFrame == <<hookVars, agentVars, clientVars, serverVars, wrapVars, watchVars>>

(***************************************************************************)
(* Bounds of the model                                                     *)
(***************************************************************************)
\* registrations created during one behaviour
MaxRegs == 3
\* tokens in the planner's response text
MaxRawLen == 3
\* length of the plans whose steps are chosen freely
MaxFreeLen == 2
\* length of the longest planner response
MaxPlanLen == 14
\* adverse environment choices (failing collaborator, veto, skip) per run
MaxFaults == 2
\* longest session identifier a server answers with
MaxSidLen == 2
\* longest tool name passed to call_tool
MaxNameLen == 2
\* longest tools list in a tools/list result
MaxTools == 2
\* longest content list in a tools/call result
MaxContent == 2
\* requests the clients of the server send
MaxRequests == 3

\* rebel-watch threads started in a behaviour
MaxLoops == 3
\* longest allowlist a session starts from
MaxBase == 2

(***************************************************************************)
(* hooks.py : data                                                         *)
(***************************************************************************)
\* the HookEvent members the model dispatches on
Events == {"pre_message", "on_agent_step"}

\* priorities used by the registering extensions (router: 10, analytics: 90)
Priorities == {10, 90}

\* handler names
Names == {"h1", "h2"}

\* What one invocation reg.fn(ctx) can do:
\*   "none"   returns None (or any value that is not the object False)
\*   "false"  returns False
\*   "raise"  raises an Exception
\*   "cancel" calls ctx.cancel(reason) and returns None
Outcomes == {"none", "false", "raise", "cancel"}

HookRegistration(id, event, priority, name) ==
    [id |-> id, event |-> event, priority |-> priority, name |-> name,
     enabled |-> TRUE]

\* a fresh HookContext: cancelled = False, cancel_reason = None
HookContext(event) ==
    [event |-> event, cancelled |-> FALSE, cancel_reason |-> <<>>]

\* HookContext.cancel(reason)
CtxCancel(ctx, reason) ==
    [ctx EXCEPT !.cancelled = TRUE, !.cancel_reason = reason]

\* f"Cancelled by hook '{reg.name}'"
CancelledByHook(name) == <<"Cancelled by hook", name>>

\* the reason text a handler passes to ctx.cancel()
HandlerReason == <<"handler reason">>

(***************************************************************************)
(* hooks.py : register / unregister / enable / disable                     *)
(***************************************************************************)
\* mutant: a sort that is not stable (x goes in front of its equals)
RECURSIVE InsertBeforeEquals(_, _)
InsertBeforeEquals(s, x) ==
    IF s = <<>> THEN <<x>>
    ELSE IF Head(s).priority < x.priority
         THEN <<Head(s)>> \o InsertBeforeEquals(Tail(s), x)
         ELSE <<x>> \o s

\* list.sort(key=priority) is stable: insert x behind every element whose
\* priority is not greater
RECURSIVE InsertByPriority(_, _)
InsertByPriority(s, x) ==
    IF s = <<>> THEN <<x>>
    ELSE IF Head(s).priority <= x.priority
         THEN <<Head(s)>> \o InsertByPriority(Tail(s), x)
         ELSE <<x>> \o s

RECURSIVE SortByPriority(_)
SortByPriority(s) ==
    IF s = <<>> THEN <<>>
    ELSE InsertByPriority(SortByPriority(SubSeq(s, 1, Len(s) - 1)), s[Len(s)])

\* mutant: the registration is appended and the registry is not re-sorted
RegisterAppendOnly(reg, r) == Append(reg, r)

\* register(): _registry.append(reg); _registry.sort(key=priority)
RegisterOp(reg, r) == SortByPriority(Append(reg, r))

RECURSIVE FilterName(_, _)
FilterName(reg, name) ==
    IF reg = <<>> THEN <<>>
    ELSE IF Head(reg).name # name
         THEN <<Head(reg)>> \o FilterName(Tail(reg), name)
         ELSE FilterName(Tail(reg), name)

\* mutant: only the first registration with the name is dropped
RECURSIVE FilterFirst(_, _)
FilterFirst(reg, name) ==
    IF reg = <<>> THEN <<>>
    ELSE IF Head(reg).name # name
         THEN <<Head(reg)>> \o FilterFirst(Tail(reg), name)
         ELSE Tail(reg)

\* unregister(): keep the registrations whose name differs
UnregisterOp(reg, name) == FilterName(reg, name)

\* unregister() returns before - len(_registry)
UnregisterCount(reg, name) == Len(reg) - Len(UnregisterOp(reg, name))

\* mutant: the flag of every registration is set, whatever its name
SetEnabledAll(reg, name, flag) ==
    [i \in DOMAIN reg |-> [reg[i] EXCEPT !.enabled = flag]]

\* disable()/enable(): set the flag of every registration with that name
SetEnabled(reg, name, flag) ==
    [i \in DOMAIN reg |->
        IF reg[i].name = name THEN [reg[i] EXCEPT !.enabled = flag] ELSE reg[i]]

(***************************************************************************)
(* hooks.py : fire                                                         *)
(***************************************************************************)
\* The running state of one fire() call: the context, the handlers invoked so
\* far (with what each did), whether the loop has stopped (break), and whether
\* an exception left fire().
FireStart(event) ==
    [ctx |-> HookContext(event), invoked |-> <<>>, stopped |-> FALSE,
     propagated |-> FALSE]

Invocation(r, out) ==
    [id |-> r.id, name |-> r.name, priority |-> r.priority, outcome |-> out]

\* mutant: a False result sets the cancellation fields but the loop goes on
HandlerStepNoBreak(st, r, out) ==
    LET st1 == [st EXCEPT !.invoked = Append(@, Invocation(r, out))] IN
    CASE out = "false" ->
            [st1 EXCEPT !.ctx = CtxCancel(st.ctx, CancelledByHook(r.name))]
      [] out = "cancel" -> [st1 EXCEPT !.ctx = CtxCancel(st.ctx, HandlerReason)]
      [] OTHER -> st1

\* mutant: no try/except around the handler call
HandlerStepNoCatch(st, r, out) ==
    LET st1 == [st EXCEPT !.invoked = Append(@, Invocation(r, out))] IN
    CASE out = "false" ->
            [st1 EXCEPT !.ctx = CtxCancel(st.ctx, CancelledByHook(r.name)),
                        !.stopped = TRUE]
      [] out = "cancel" -> [st1 EXCEPT !.ctx = CtxCancel(st.ctx, HandlerReason)]
      [] out = "raise" -> [st1 EXCEPT !.stopped = TRUE, !.propagated = TRUE]
      [] OTHER -> st1

\* the try block of fire(): call the handler; False cancels and breaks; an
\* Exception is caught and printed
HandlerStep(st, r, out) ==
    LET st1 == [st EXCEPT !.invoked = Append(@, Invocation(r, out))] IN
    CASE out = "false" ->
            [st1 EXCEPT !.ctx = CtxCancel(st.ctx, CancelledByHook(r.name)),
                        !.stopped = TRUE]
      [] out = "cancel" -> [st1 EXCEPT !.ctx = CtxCancel(st.ctx, HandlerReason)]
      [] out = "raise" -> st1
      [] OTHER -> st1

\* for reg in _registry: skip other events and disabled registrations
RECURSIVE FireLoop(_, _, _, _)
FireLoop(reg, event, outs, st) ==
    IF reg = <<>> \/ st.stopped THEN st
    ELSE LET r == Head(reg) IN
         IF r.event # event \/ ~r.enabled
         THEN FireLoop(Tail(reg), event, outs, st)
         ELSE FireLoop(Tail(reg), event, outs, HandlerStep(st, r, outs[r.id]))

\* fire(event): what the call did and the context it returns
FireOp(reg, event, outs) ==
    LET st == FireLoop(reg, event, outs, FireStart(event)) IN
    [event |-> event, invoked |-> st.invoked, cancelled |-> st.ctx.cancelled,
     cancel_reason |-> st.ctx.cancel_reason, propagated |-> st.propagated]

NoFire ==
    [event |-> "none", invoked |-> <<>>, cancelled |-> FALSE,
     cancel_reason |-> <<>>, propagated |-> FALSE]

\* the registrations fire() considers for an event, in registry order
Eligible(reg, event) ==
    SelectSeq(reg, LAMBDA r : r.event = event /\ r.enabled)

\* the identities of those registrations: the handlers a firing may call
EligibleIds(reg, event) ==
    {reg[i].id : i \in {j \in DOMAIN reg : reg[j].event = event /\ reg[j].enabled}}

(***************************************************************************)
(* hooks.py : actions                                                      *)
(***************************************************************************)
\* a call of register, unregister, disable or enable as its caller sees it;
\* result is the count unregister returns, 0 for the calls returning None
RegistryCall(op, name, result) == [op |-> op, name |-> name, result |-> result]

NoCall == RegistryCall("none", "", 0)

HooksInit ==
    /\ registry = <<>>
    /\ nextId = 1
    /\ lastFire = NoFire
    /\ hookCall = NoCall

\* The dispatcher is called from one thread: no call starts while the context
\* of a firing is still with its caller.
HooksIdle == lastFire = NoFire

Register ==
    /\ HooksIdle
    /\ nextId <= MaxRegs
    /\ \E e \in Events, p \in Priorities, n \in Names :
          /\ registry' = RegisterOp(registry, HookRegistration(nextId, e, p, n))
          /\ hookCall' = RegistryCall("register", n, 0)
    /\ nextId' = nextId + 1
    /\ UNCHANGED lastFire
    /\ UNCHANGED hooksFrame

Unregister ==
    /\ HooksIdle
    /\ \E n \in Names :
          /\ registry' = UnregisterOp(registry, n)
          /\ hookCall' = RegistryCall("unregister", n, UnregisterCount(registry, n))
    /\ UNCHANGED <<nextId, lastFire>>
    /\ UNCHANGED hooksFrame

Disable ==
    /\ HooksIdle
    /\ \E n \in Names :
          /\ registry' = SetEnabled(registry, n, FALSE)
          /\ hookCall' = RegistryCall("disable", n, 0)
    /\ UNCHANGED <<nextId, lastFire>>
    /\ UNCHANGED hooksFrame

Enable ==
    /\ HooksIdle
    /\ \E n \in Names :
          /\ registry' = SetEnabled(registry, n, TRUE)
          /\ hookCall' = RegistryCall("enable", n, 0)
    /\ UNCHANGED <<nextId, lastFire>>
    /\ UNCHANGED hooksFrame

\* fire(event, ...): every handler's behaviour is chosen by the environment
Fire ==
    /\ HooksIdle
    /\ \E e \in Events :
          \E outs \in [EligibleIds(registry, e) -> Outcomes] :
             lastFire' = FireOp(registry, e, outs)
    /\ UNCHANGED <<registry, nextId, hookCall>>
    /\ UNCHANGED hooksFrame

\* the caller is done with the returned context
FireReturn ==
    /\ ~HooksIdle
    /\ lastFire' = NoFire
    /\ UNCHANGED <<registry, nextId, hookCall>>
    /\ UNCHANGED hooksFrame

NextHooks == Register \/ Unregister \/ Disable \/ Enable \/ Fire \/ FireReturn

(***************************************************************************)
(* agent_mode.py : the planner's response and plan_goal                    *)
(***************************************************************************)
\* SC-5 hard step cap
MAX_STEPS == 12

\* The planner's text as a sequence of pieces:
\*   "fence"      a ``` marker
\*   "jsonword"   the word json
\*   "prose"      text without braces that is not JSON (an "Ollama error: ..."
\*                text is of this kind)
\*   "object"     the text of a JSON object: the plan document
\*   "nonobject"  the text of a JSON value that is not an object and holds no
\*                braces (a number, a string)
\*   "brace"      text in braces that is not JSON
RawTokens == {"fence", "jsonword", "prose", "object", "nonobject", "brace"}

RawTexts == UNION {[1..n -> RawTokens] : n \in 0..MaxRawLen}

Range(f) == {f[i] : i \in DOMAIN f}

\* dict.get(key, default)
Get(d, key, default) == IF key \in DOMAIN d THEN d[key] ELSE default

\* raw.split("```")[1]: the text between the first fence and the next one
RECURSIVE UpToFence(_)
UpToFence(s) ==
    IF s = <<>> \/ Head(s) = "fence" THEN <<>>
    ELSE <<Head(s)>> \o UpToFence(Tail(s))

RECURSIVE AfterFirstFence(_)
AfterFirstFence(s) ==
    IF Head(s) = "fence" THEN UpToFence(Tail(s)) ELSE AfterFirstFence(Tail(s))

\* lines 125-128: strip the markdown fence and a leading "json"
StripFence(raw) ==
    IF "fence" \in Range(raw)
    THEN LET seg == AfterFirstFence(raw) IN
         IF seg # <<>> /\ Head(seg) = "jsonword" THEN Tail(seg) ELSE seg
    ELSE raw

\* json.loads(text): "object", "nonobject" or "error" (JSONDecodeError)
JsonLoads(text) ==
    IF text = <<"object">> THEN "object"
    ELSE IF text = <<"nonobject">> THEN "nonobject"
    ELSE "error"

\* re.search(r'\{[\s\S]+\}', raw).group(): from the first brace to the last
BracePositions(text) == {i \in DOMAIN text : text[i] \in {"object", "brace"}}

Min(S) == CHOOSE x \in S : \A y \in S : x <= y
Max(S) == CHOOSE x \in S : \A y \in S : x >= y

BraceBlock(text) ==
    SubSeq(text, Min(BracePositions(text)), Max(BracePositions(text)))

\* lines 122-143 of plan_goal: "object" (data is the plan document),
\* "nonobject" (data is another JSON value), or "none" (return None)
ParsePlan(raw) ==
    LET text == StripFence(raw) IN
    IF JsonLoads(text) # "error" THEN JsonLoads(text)
    ELSE IF BracePositions(text) # {}
         THEN IF JsonLoads(BraceBlock(text)) = "error"
              THEN "none" ELSE JsonLoads(BraceBlock(text))
         ELSE "none"

\* AgentStep(index=..., description=..., action=..., content=...) with the
\* defaults of s.get; a description is a number, 0 the empty description
AgentStepOf(s) ==
    [index |-> Get(s, "index", 0),
     description |-> Get(s, "description", 0),
     action |-> Get(s, "action", "message"),
     content |-> Get(s, "content", ""),
     status |-> "pending",
     timed |-> FALSE]

\* mutant: every entry of the planner's list becomes a step
PlanStepsUncapped(steps) == [i \in DOMAIN steps |-> AgentStepOf(steps[i])]

\* for s in data.get("steps", [])[:MAX_STEPS]: session.steps.append(...)
PlanSteps(steps) ==
    [i \in 1..(IF Len(steps) < MAX_STEPS THEN Len(steps) ELSE MAX_STEPS) |->
        AgentStepOf(steps[i])]

NoSession == [steps |-> <<>>, status |-> "none", current_step |-> 0]

\* mutant: the session is created with a terminal status
NewSessionDone(steps) ==
    [steps |-> PlanSteps(steps), status |-> "done", current_step |-> 0]

\* AgentSession(goal=goal) filled with the steps
NewSession(steps) ==
    [steps |-> PlanSteps(steps), status |-> "planning", current_step |-> 0]

\* mutant: plan_goal without its except json.JSONDecodeError clause
PlanGoalNoCatch(raw, steps) ==
    CASE JsonLoads(StripFence(raw)) = "object" ->
            [outcome |-> "session", session |-> NewSession(steps)]
      [] OTHER -> [outcome |-> "raise", session |-> NoSession]

\* plan_goal(): [outcome |-> "session" | "none" | "raise", session]
\* (data.get on a value that is not a dict raises AttributeError)
PlanGoal(raw, steps) ==
    CASE ParsePlan(raw) = "object" ->
            [outcome |-> "session", session |-> NewSession(steps)]
      [] ParsePlan(raw) = "nonobject" ->
            [outcome |-> "raise", session |-> NoSession]
      [] OTHER -> [outcome |-> "none", session |-> NoSession]

(***************************************************************************)
(* the planner documents the model draws from                              *)
(***************************************************************************)
\* the action and content fields of a step entry; the last shape has neither
\* field and takes the defaults
StepShapes ==
    {[action |-> "message", content |-> "text"],
     [action |-> "skill",   content |-> "text"],
     [action |-> "skill",   content |-> ""],
     [action |-> "shell",   content |-> "text"],
     [action |-> "mcp",     content |-> "srv/tool"],
     [action |-> "mcp",     content |-> "text"],
     [action |-> "bogus",   content |-> "text"],
     [nofield \in {} |-> ""]}

\* how the planner numbers its steps: by position, or not at all
IndexModes == {"position", "absent"}

StepEntry(k, shape, mode) ==
    LET base == shape @@ [description |-> k] IN
    IF mode = "position" THEN base @@ [index |-> k] ELSE base

\* plans of up to MaxFreeLen steps of any shapes
FreePlans ==
    UNION {{[k \in 1..n |-> StepEntry(k, f[k], mode)] :
                f \in [1..n -> StepShapes], mode \in IndexModes} :
           n \in 0..MaxFreeLen}

\* plans around the step cap: message steps numbered by position
LongPlans ==
    {[k \in 1..n |-> StepEntry(k, [action |-> "message", content |-> "text"],
                               "position")] :
        n \in (MAX_STEPS - 1)..MaxPlanLen}

Plans == FreePlans \cup LongPlans

BriefPlans == {p \in FreePlans : Len(p) <= 1}

\* The responses of the planning call: the plain JSON document with any plan,
\* every text around a document with a plan of at most one step, and every
\* text without a document.
PlannerResponses ==
    {[raw |-> <<"object">>, steps |-> p] : p \in Plans}
    \cup {[raw |-> r, steps |-> p] :
            r \in {t \in RawTexts : "object" \in Range(t)}, p \in BriefPlans}
    \cup {[raw |-> r, steps |-> <<>>] :
            r \in {t \in RawTexts : "object" \notin Range(t)}}

(***************************************************************************)
(* agent_mode.py : _execute_step                                           *)
(***************************************************************************)
\* What the collaborators of one step do, chosen by the environment:
\*   collab  the result of run_skill ("ok", "false", "raise"), of run_approved
\*           ("rc0_out", "rc0_blank", "rc_nonzero", "raise") or of
\*           mcp_client.call ("text", "error_text", "empty", "raise")
\*   coder   the result of coder.run ("ok", "raise"), or "hang" when the
\*           call made for a message step never returns (it has no timeout)
\* "none" where the step does not make the call.
EnvChoices(step) ==
    CASE step.action = "message" ->
            {[collab |-> "none", coder |-> k] : k \in {"ok", "raise", "hang"}}
      [] step.action = "skill" /\ step.content # "" ->
            {[collab |-> c, coder |-> "none"] : c \in {"ok", "false", "raise"}}
      [] step.action = "shell" ->
            {[collab |-> "rc0_out", coder |-> k] : k \in {"ok", "raise"}}
            \cup {[collab |-> c, coder |-> "none"] :
                    c \in {"rc0_blank", "rc_nonzero", "raise"}}
      [] step.action = "mcp" /\ step.content = "srv/tool" ->
            {[collab |-> "text", coder |-> k] : k \in {"ok", "raise"}}
            \cup {[collab |-> c, coder |-> "none"] :
                    c \in {"error_text", "empty", "raise"}}
      [] OTHER -> {[collab |-> "none", coder |-> "none"]}

\* the environment made a collaborator fail
Adverse(env) ==
    \/ env.collab \in {"false", "raise", "rc_nonzero", "error_text"}
    \/ env.coder \in {"raise", "hang"}

Call(p, target, result) == [pos |-> p, target |-> target, result |-> result]

\* mutant: the duration is recorded but the status is not set
DoneNotMarked(step) == [step EXCEPT !.timed = TRUE]

\* lines 222-223: status and duration of a step that went through
Done(step) == [step EXCEPT !.status = "done", !.timed = TRUE]

\* mutant: the except clause leaves the status as line 171 set it
FailedLeftRunning(step) == [step EXCEPT !.status = "running", !.timed = TRUE]

\* the except clause of _execute_step
Failed(step) == [step EXCEPT !.status = "failed", !.timed = TRUE]

\* the shell branch (lines 201-209)
ShellBranch(step, p, env) ==
    LET c1 == <<Call(p, "run_approved", env.collab)>> IN
    CASE env.collab = "raise" ->
            [step |-> Failed(step), success |-> FALSE, calls |-> c1]
      [] env.collab = "rc_nonzero" ->
            [step |-> Failed(step), success |-> FALSE, calls |-> c1]
      [] env.collab = "rc0_blank" ->
            [step |-> Done(step), success |-> TRUE, calls |-> c1]
      [] OTHER ->
            IF env.coder = "ok"
            THEN [step |-> Done(step), success |-> TRUE,
                  calls |-> c1 \o <<Call(p, "coder.run", "ok")>>]
            ELSE [step |-> Failed(step), success |-> FALSE,
                  calls |-> c1 \o <<Call(p, "coder.run", "raise")>>]

\* the mcp branch (lines 211-220)
McpBranch(step, p, env) ==
    IF step.content # "srv/tool"
    THEN [step |-> Done(step), success |-> TRUE, calls |-> <<>>]
    ELSE LET c1 == <<Call(p, "mcp.call", env.collab)>> IN
         CASE env.collab = "raise" ->
                 [step |-> Failed(step), success |-> FALSE, calls |-> c1]
           [] env.collab = "text" ->
                 IF env.coder = "ok"
                 THEN [step |-> Done(step), success |-> TRUE,
                       calls |-> c1 \o <<Call(p, "coder.run", "ok")>>]
                 ELSE [step |-> Failed(step), success |-> FALSE,
                       calls |-> c1 \o <<Call(p, "coder.run", "raise")>>]
           [] OTHER -> [step |-> Done(step), success |-> TRUE, calls |-> c1]

\* the skill branch (lines 191-199): an empty content raises IndexError at
\* parts[0]; a skill that reports failure returns before the duration is set
SkillBranch(step, p, env) ==
    IF step.content = ""
    THEN [step |-> Failed(step), success |-> FALSE, calls |-> <<>>]
    ELSE LET c1 == <<Call(p, "run_skill", env.collab)>> IN
         CASE env.collab = "ok" ->
                 [step |-> Done(step), success |-> TRUE, calls |-> c1]
           [] env.collab = "false" ->
                 [step |-> [step EXCEPT !.status = "failed"],
                  success |-> FALSE, calls |-> c1]
           [] OTHER -> [step |-> Failed(step), success |-> FALSE, calls |-> c1]

\* the message branch (lines 187-189)
MessageBranch(step, p, env) ==
    IF env.coder = "ok"
    THEN [step |-> Done(step), success |-> TRUE,
          calls |-> <<Call(p, "coder.run", "ok")>>]
    ELSE [step |-> Failed(step), success |-> FALSE,
          calls |-> <<Call(p, "coder.run", "raise")>>]

\* mutant: a vetoed step is reported as a failure
ExecuteStepVetoFails(step, p, ctx, env) ==
    IF ctx.cancelled
    THEN [step |-> [step EXCEPT !.status = "skipped"], success |-> FALSE,
          calls |-> <<>>]
    ELSE CASE step.action = "message" -> MessageBranch(step, p, env)
           [] step.action = "skill" -> SkillBranch(step, p, env)
           [] step.action = "shell" -> ShellBranch(step, p, env)
           [] step.action = "mcp" -> McpBranch(step, p, env)
           [] OTHER -> [step |-> Done(step), success |-> TRUE, calls |-> <<>>]

\* _execute_step(step, coder) for the step at position p, given the context the
\* on_agent_step firing returned: the step afterwards, the return value and
\* the collaborator calls made
ExecuteStep(step, p, ctx, env) ==
    IF ctx.cancelled
    THEN [step |-> [step EXCEPT !.status = "skipped"], success |-> TRUE,
          calls |-> <<>>]
    ELSE CASE step.action = "message" -> MessageBranch(step, p, env)
           [] step.action = "skill" -> SkillBranch(step, p, env)
           [] step.action = "shell" -> ShellBranch(step, p, env)
           [] step.action = "mcp" -> McpBranch(step, p, env)
           [] OTHER -> [step |-> Done(step), success |-> TRUE, calls |-> <<>>]

(***************************************************************************)
(* agent_mode.py : run_agent                                               *)
(***************************************************************************)
AgentInit ==
    /\ agentPc = "idle"
    /\ session = NoSession
    /\ activeSession = FALSE
    /\ autoApprove = FALSE
    /\ pos = 0
    /\ plannerRaw = <<>>
    /\ plannerSteps = <<>>
    /\ entered = <<>>
    /\ calls = <<>>
    /\ faults = 0
    /\ runResult = "none"
    /\ audit = 0

\* the registries the orchestrator runs against: none, or one handler on the
\* agent-step event (analytics_bridge registers one at priority 90)
AgentRegistries ==
    {<<>>, RegisterOp(<<>>, HookRegistration(1, "on_agent_step", 90, "h1"))}

\* mutant: no failure is put to the operator
AsksNever(success, step) == FALSE

\* line 302: a failed step that is not a shell step is put to the operator
AsksAfterFailure(success, step) == ~success /\ step.action # "shell"

\* lines 295-306 for the step at position pos: fire the event, execute, and
\* either go on with the loop or ask about the failure
DoExecute ==
    LET step == session.steps[pos] IN
    \E outs \in [EligibleIds(registry, "on_agent_step") -> Outcomes] :
      LET ctx == FireOp(registry, "on_agent_step", outs) IN
      \E env \in (IF ctx.cancelled THEN {[collab |-> "none", coder |-> "none"]}
                  ELSE EnvChoices(step)) :
        LET r == ExecuteStep(step, pos, ctx, env) IN
        /\ (ctx.cancelled \/ Adverse(env)) => faults < MaxFaults
        /\ faults' = IF ctx.cancelled \/ Adverse(env) THEN faults + 1 ELSE faults
        /\ entered' = Append(entered, [pos |-> pos, vetoed |-> ctx.cancelled,
                                        asked |-> agentPc = "confirm"])
        /\ IF env.coder = "hang"
           THEN \* coder.run (line 188) does not return: the step stays as
                \* line 171 left it and run_agent stays in _execute_step
                /\ session' = [session EXCEPT !.steps[pos].status = "running",
                                              !.current_step = step.index]
                /\ calls' = Append(calls, Call(pos, "coder.run", "hang"))
                /\ agentPc' = "instep"
                /\ pos' = pos
           ELSE /\ session' = [session EXCEPT !.steps[pos] = r.step,
                                              !.current_step = step.index]
                /\ calls' = calls \o r.calls
                /\ IF AsksAfterFailure(r.success, step)
                   THEN agentPc' = "failprompt" /\ pos' = pos
                   ELSE agentPc' = "loop" /\ pos' = pos + 1

\* run_agent up to its first input(): plan, publish the session, show the plan
RunAgent ==
    /\ agentPc = "idle"
    /\ \E resp \in PlannerResponses, auto \in BOOLEAN :
           LET plan == PlanGoal(resp.raw, resp.steps) IN
           /\ autoApprove' = auto
           /\ plannerRaw' = resp.raw
           /\ plannerSteps' = resp.steps
           /\ session' = IF plan.outcome = "session" /\ auto
                         THEN [plan.session EXCEPT !.status = "running"]
                         ELSE plan.session
           /\ activeSession' = IF plan.outcome = "session" THEN TRUE
                               ELSE activeSession
           /\ agentPc' = CASE plan.outcome = "raise" -> "raised"
                           [] plan.outcome = "none" -> "returned"
                           [] auto -> "loop"
                           [] OTHER -> "approve"
           /\ runResult' = CASE plan.outcome = "raise" -> "raised"
                             [] plan.outcome = "none" -> "false"
                             [] OTHER -> "none"
    /\ pos' = 1
    /\ entered' = <<>>
    /\ calls' = <<>>
    /\ faults' = 0
    /\ audit' = 0
    /\ UNCHANGED agentFrame

\* "Approve this plan and begin execution? [Y/n]"
AgentApprove ==
    /\ agentPc = "approve"
    /\ \E resp \in {"y", "n"} :
         IF resp = "n"
         THEN /\ session' = [session EXCEPT !.status = "cancelled"]
              /\ agentPc' = "returned"
              /\ runResult' = "false"
         ELSE /\ session' = [session EXCEPT !.status = "running"]
              /\ agentPc' = "loop"
              /\ UNCHANGED runResult
    /\ UNCHANGED <<activeSession, autoApprove, pos, plannerRaw, plannerSteps,
                   entered, calls, faults, audit>>
    /\ UNCHANGED agentFrame

\* one turn of the for loop up to the next input(): a step with index > 1 is
\* confirmed first unless the run is auto-approved
AgentStep ==
    /\ agentPc = "loop"
    /\ pos <= Len(session.steps)
    /\ IF ~autoApprove /\ session.steps[pos].index > 1
       THEN /\ agentPc' = "confirm"
            /\ session' = [session EXCEPT
                              !.current_step = session.steps[pos].index]
            /\ UNCHANGED <<pos, entered, calls, faults>>
       ELSE DoExecute
    /\ UNCHANGED <<activeSession, autoApprove, plannerRaw, plannerSteps,
                   runResult, audit>>
    /\ UNCHANGED agentFrame

\* "Continue? [Y/n/skip/abort]"
AgentConfirm ==
    /\ agentPc = "confirm"
    /\ \E resp \in {"y", "abort", "skip"} :
         CASE resp = "abort" ->
                 /\ session' = [session EXCEPT !.status = "cancelled"]
                 /\ agentPc' = "summary"
                 /\ UNCHANGED <<pos, entered, calls, faults>>
           [] resp = "skip" ->
                 /\ faults < MaxFaults
                 /\ faults' = faults + 1
                 /\ session' = [session EXCEPT !.steps[pos].status = "skipped"]
                 /\ agentPc' = "loop"
                 /\ pos' = pos + 1
                 /\ UNCHANGED <<entered, calls>>
           [] OTHER -> DoExecute
    /\ UNCHANGED <<activeSession, autoApprove, plannerRaw, plannerSteps,
                   runResult, audit>>
    /\ UNCHANGED agentFrame

\* "Step failed. Continue anyway? [y/N]"
AgentFailPrompt ==
    /\ agentPc = "failprompt"
    /\ \E resp \in {"y", "n"} :
         IF resp = "y"
         THEN /\ agentPc' = "loop"
              /\ pos' = pos + 1
              /\ UNCHANGED session
         ELSE /\ session' = [session EXCEPT !.status = "failed"]
              /\ agentPc' = "summary"
              /\ UNCHANGED pos
    /\ UNCHANGED <<activeSession, autoApprove, plannerRaw, plannerSteps,
                   entered, calls, faults, runResult, audit>>
    /\ UNCHANGED agentFrame

\* the end of run_agent: the for-else sets "done" when the loop ran out; the
\* summary is printed, one record is sent to the Captain's Log (best effort),
\* the active session is released and the status decides the return value
AgentFinish ==
    /\ \/ agentPc = "loop" /\ pos > Len(session.steps)
       \/ agentPc = "summary"
    /\ LET status == IF agentPc = "loop" THEN "done" ELSE session.status IN
       /\ session' = [session EXCEPT !.status = status]
       /\ runResult' = IF status = "done" THEN "true" ELSE "false"
    /\ \E logged \in BOOLEAN : audit' = IF logged THEN audit + 1 ELSE audit
    /\ activeSession' = FALSE
    /\ agentPc' = "returned"
    /\ UNCHANGED <<autoApprove, pos, plannerRaw, plannerSteps, entered, calls,
                   faults>>
    /\ UNCHANGED agentFrame

\* run_agent has returned or raised: its locals and arguments are gone, the
\* module global _active_session stays as the run left it
AgentReturn ==
    /\ agentPc \in {"returned", "raised"}
    /\ agentPc' = "idle"
    /\ session' = NoSession
    /\ pos' = 0
    /\ plannerRaw' = <<>>
    /\ plannerSteps' = <<>>
    /\ entered' = <<>>
    /\ calls' = <<>>
    /\ faults' = 0
    /\ runResult' = "none"
    /\ audit' = 0
    /\ autoApprove' = FALSE
    /\ UNCHANGED activeSession
    /\ UNCHANGED agentFrame

NextAgent ==
    RunAgent \/ AgentApprove \/ AgentStep \/ AgentConfirm \/ AgentFailPrompt
    \/ AgentFinish \/ AgentReturn

(***************************************************************************)
(* MCP client (cmnd/mcp_client.py): data                                   *)
(***************************************************************************)
\* characters a session identifier or a tool name is made of: a letter, a
\* digit, the two extra characters _request accepts, a printable character
\* it does not accept, and a bare line feed
Chars == {"a", "7", "-", "_", ".", "nl"}

\* str.isalnum on one character
IsAlnum(c) == c \in {"a", "7"}

\* strings of at most n characters
Strings(n) == UNION {[1..k -> Chars] : k \in 0..n}

\* header values a server can answer with; <<>> is "no such header"
SessionIds == Strings(MaxSidLen)

\* tool names a caller can pass
ToolNames == Strings(MaxNameLen)

\* line 91: the check _request makes before it re-sends a session id
IsSafe(sid) == \A i \in DOMAIN sid : IsAlnum(sid[i]) \/ sid[i] \in {"-", "_"}

\* lines 178-186: urlopen refuses a header value with a bare line feed by
\* raising ValueError before anything is written to the connection
HeaderLegal(sid) == \A i \in DOMAIN sid : sid[i] # "nl"

\* mutant: only the empty name is refused
ToolNameNotEmpty(name) == name # <<>>

\* line 152: tool_name.replace("-", "").replace("_", "").isalnum()
ToolNameOk(name) ==
    LET NotDash(c) == c \notin {"-", "_"}
        stripped == SelectSeq(name, NotDash)
    IN  stripped # <<>> /\ \A i \in DOMAIN stripped : IsAlnum(stripped[i])

\* an entry of a tools list: whether it is a JSON object, whether "name" is
\* found in it, and which entry it is
ToolEntries == [isDict : BOOLEAN, hasName : BOOLEAN, id : 1..2]

ToolLists == UNION {[1..k -> ToolEntries] : k \in 0..MaxTools}

\* an item of a content list
ContentItems == {"text", "image", "nondict"}

ContentLists == UNION {[1..k -> ContentItems] : k \in 0..MaxContent}

\* the dict _request returns: has it an "error" key, what is under "tools",
\* what is under "content"
Doc(error, toolsKind, tools, contentKind, content) ==
    [error |-> error, toolsKind |-> toolsKind, tools |-> tools,
     contentKind |-> contentKind, content |-> content]

PlainDoc == Doc(FALSE, "absent", <<>>, "absent", <<>>)

\* lines 116, 119, 123, 125: {"error": ...}
ErrorDoc == Doc(TRUE, "absent", <<>>, "absent", <<>>)

\* what the server side of one exchange does
\*   unreachable: urlopen raises URLError (HTTP error statuses included)
\*   timeout:     TimeoutError
\*   broken:      the body cannot be read to its end (IncompleteRead)
\*   notjson:     the body is not JSON
\*   nonobject:   the body is JSON but not an object
\*   rpcerror:    a JSON object with an "error" member
\*   ok:          a JSON object carrying the result
ResponseKinds ==
    {"unreachable", "timeout", "broken", "notjson", "nonobject", "rpcerror",
     "ok"}

\* the kinds in which response headers reach line 99
HeaderKinds == {"broken", "notjson", "nonobject", "rpcerror", "ok"}

Response(kind, sid, doc) == [kind |-> kind, sid |-> sid, doc |-> doc]

\* an outgoing request as it is written to the connection; sid <<>> is a
\* request without the mcp-session-id header
Message(verb, method, sid) == [verb |-> verb, method |-> method, sid |-> sid]

(***************************************************************************)
(* MCP client: MCPSession                                                  *)
(***************************************************************************)
\* lines 74-125: _request. Gives the exception raised ("none" if it
\* returned), the requests sent, the session id afterwards and the result.
Request(sid, method, resp) ==
    IF sid # <<>> /\ ~IsSafe(sid)
    THEN [raised |-> "ValueError", sent |-> <<>>, sid |-> sid,
          doc |-> ErrorDoc]
    ELSE
      LET msg == Message("POST", method, sid)
          captured == IF resp.kind \in HeaderKinds /\ resp.sid # <<>>
                         /\ sid = <<>>
                      THEN resp.sid ELSE sid
          Out(raised, doc) == [raised |-> raised, sent |-> <<msg>>,
                               sid |-> captured, doc |-> doc]
      IN  CASE resp.kind \in {"unreachable", "timeout"} -> Out("none", ErrorDoc)
            [] resp.kind = "broken"    -> Out("IncompleteRead", ErrorDoc)
            [] resp.kind = "notjson"   -> Out("none", ErrorDoc)
            [] resp.kind = "nonobject" -> Out("AttributeError", ErrorDoc)
            [] resp.kind = "rpcerror"  -> Out("none", ErrorDoc)
            [] OTHER                   -> Out("none", resp.doc)

\* what an operation leaves behind: exception, requests sent, session id,
\* and the value returned (ok for initialize, tools for list_tools, text for
\* call_tool and call)
NoText == [kind |-> "none", parts |-> 0]

Outcome(r, ok, tools, text) ==
    [raised |-> r.raised, sent |-> r.sent, sid |-> r.sid, ok |-> ok,
     tools |-> tools, text |-> text]

\* lines 127-136: initialize
InitializeOp(sid, resp) ==
    LET r == Request(sid, "initialize", resp)
    IN  Outcome(r, r.raised = "none" /\ ~r.doc.error, <<>>, NoText)

\* mutant: line 145 without the "name" test
KeepDicts(tools) ==
    LET IsDictEntry(t) == t.isDict IN SelectSeq(tools, IsDictEntry)

\* line 145: [t for t in tools if isinstance(t, dict) and "name" in t]
KeepNamed(tools) ==
    LET Named(t) == t.isDict /\ t.hasName IN SelectSeq(tools, Named)

\* lines 138-145: list_tools
ListToolsOp(sid, resp) ==
    LET r == Request(sid, "tools/list", resp)
    IN  CASE r.raised # "none"     -> Outcome(r, FALSE, <<>>, NoText)
          [] r.doc.error           -> Outcome(r, FALSE, <<>>, NoText)
          [] r.doc.toolsKind = "null" ->
                 Outcome([r EXCEPT !.raised = "TypeError"], FALSE, <<>>, NoText)
          [] r.doc.toolsKind = "absent" -> Outcome(r, TRUE, <<>>, NoText)
          [] OTHER -> Outcome(r, TRUE, KeepNamed(r.doc.tools), NoText)

\* lines 165-172: the text made of a result
ResultText(doc) ==
    LET IsTextItem(c) == c = "text"
        parts == SelectSeq(doc.content, IsTextItem)
    IN  CASE doc.contentKind = "nonlist" -> [kind |-> "str", parts |-> 0]
          [] doc.contentKind = "absent"  -> [kind |-> "dump", parts |-> 0]
          [] parts = <<>>                -> [kind |-> "dump", parts |-> 0]
          [] OTHER -> [kind |-> "text", parts |-> Len(parts)]

\* lines 147-172: call_tool
CallToolOp(sid, name, resp) ==
    IF ~ToolNameOk(name)
    THEN [raised |-> "none", sent |-> <<>>, sid |-> sid, ok |-> FALSE,
          tools |-> <<>>, text |-> [kind |-> "invalid_name", parts |-> 0]]
    ELSE LET r == Request(sid, "tools/call", resp)
         IN  CASE r.raised # "none" -> Outcome(r, FALSE, <<>>, NoText)
               [] r.doc.error ->
                      Outcome(r, FALSE, <<>>,
                              [kind |-> "error_from", parts |-> 0])
               [] OTHER -> Outcome(r, TRUE, <<>>, ResultText(r.doc))

\* lines 174-187: close
CloseOp(sid) ==
    [raised |-> "none",
     sent |-> IF sid # <<>> /\ HeaderLegal(sid)
              THEN <<Message("DELETE", "close", sid)>> ELSE <<>>,
     sid |-> <<>>, ok |-> TRUE, tools |-> <<>>, text |-> NoText]

\* lines 189-194, 201-207: call. __enter__ runs initialize on a new
\* MCPSession; when it raises, the with block is not entered and __exit__
\* does not run. Otherwise call_tool runs and __exit__ closes.
OneShotCallOp(name, resp1, resp2) ==
    LET opened == InitializeOp(<<>>, resp1)
        called == CallToolOp(opened.sid, name, resp2)
        closed == CloseOp(called.sid)
    IN  IF opened.raised # "none" THEN opened
        ELSE [called EXCEPT !.sent = opened.sent \o called.sent \o closed.sent,
                            !.sid = closed.sid]

(***************************************************************************)
(* MCP client: actions on one MCPSession object                            *)
(***************************************************************************)
\* session ids the server answers with after the handshake
ProbeSids == {<<>>, <<"a">>, <<".">>, <<"nl">>}

\* the answers of a server, with header values from sids and results from docs
Responses(sids, docs) ==
    {Response(k, <<>>, PlainDoc) : k \in {"unreachable", "timeout"}}
    \cup {Response(k, s, PlainDoc) :
             k \in {"broken", "notjson", "nonobject", "rpcerror"}, s \in sids}
    \cup {Response("ok", s, d) : s \in sids, d \in docs}

\* every session id comes with a good handshake, the probes with the others
HandshakeResponses ==
    Responses(ProbeSids, {PlainDoc, ErrorDoc})
    \cup {Response("ok", s, PlainDoc) : s \in SessionIds}

ToolDocs ==
    {Doc(FALSE, "list", l, "absent", <<>>) : l \in ToolLists}
    \cup {Doc(FALSE, "null", <<>>, "absent", <<>>), PlainDoc, ErrorDoc,
          Doc(TRUE, "list", <<[isDict |-> TRUE, hasName |-> TRUE, id |-> 1]>>,
              "absent", <<>>)}

ListResponses ==
    Responses({<<>>}, ToolDocs) \cup Responses(ProbeSids, {PlainDoc})

ContentDocs ==
    {Doc(FALSE, "absent", <<>>, "list", c) : c \in ContentLists}
    \cup {Doc(FALSE, "absent", <<>>, "nonlist", <<>>), PlainDoc, ErrorDoc}

CallResponses ==
    Responses({<<>>}, ContentDocs) \cup Responses(ProbeSids, {PlainDoc})

\* full variety of answers for the tool "a", a plain answer for the others
AnswersFor(name) ==
    IF name = <<"a">> THEN CallResponses
    ELSE {Response("ok", <<>>, PlainDoc)}

\* the one-shot entry point is driven with a valid and an invalid tool name
OneShotNames == {<<"a">>, <<".">>}

OneShotHandshakes == Responses(ProbeSids, {PlainDoc})

OneShotAnswers == Responses({<<>>}, {PlainDoc})

NoResult ==
    [op |-> "none", name |-> <<>>, raised |-> "none", ok |-> FALSE,
     tools |-> <<>>, text |-> NoText]

\* the POST requests among msgs
Posts(msgs) == LET IsPost(m) == m.verb = "POST" IN SelectSeq(msgs, IsPost)

\* an operation has returned or raised: the object's session id, what went
\* over the wire, what the caller sees (with the tool name the caller
\* passed), and the answers that were consumed
Finish(op, name, out, resps) ==
    /\ sessionId' = out.sid
    /\ sent' = out.sent
    /\ clientResult' = [op |-> op, name |-> name, raised |-> out.raised,
                        ok |-> out.ok, tools |-> out.tools, text |-> out.text]
    /\ served' = SubSeq(resps, 1, Len(Posts(out.sent)))

ClientInit ==
    /\ sessionId = <<>>
    /\ sent = <<>>
    /\ clientResult = NoResult
    /\ served = <<>>

Initialize ==
    /\ \E resp \in HandshakeResponses :
          Finish("initialize", <<>>, InitializeOp(sessionId, resp), <<resp>>)
    /\ UNCHANGED clientFrame

ListTools ==
    /\ \E resp \in ListResponses :
          Finish("list_tools", <<>>, ListToolsOp(sessionId, resp), <<resp>>)
    /\ UNCHANGED clientFrame

CallTool ==
    /\ \E name \in ToolNames :
          \E resp \in AnswersFor(name) :
              Finish("call_tool", name, CallToolOp(sessionId, name, resp),
                     <<resp>>)
    /\ UNCHANGED clientFrame

Close ==
    /\ Finish("close", <<>>, CloseOp(sessionId), <<>>)
    /\ UNCHANGED clientFrame

\* call(): a new MCPSession replaces the one in use
OneShotCall ==
    /\ \E name \in OneShotNames, resp1 \in OneShotHandshakes,
          resp2 \in OneShotAnswers :
          Finish("call", name, OneShotCallOp(name, resp1, resp2),
                 <<resp1, resp2>>)
    /\ UNCHANGED clientFrame

NextClient == Initialize \/ ListTools \/ CallTool \/ Close \/ OneShotCall

(***************************************************************************)
(* MCP server (cmnd/mcp_server.py): data                                   *)
(***************************************************************************)
\* session ids are the uuid4 strings of _new_session, numbered in the order
\* they are issued; 0 is a request without the mcp-session-id header
NoSid == 0

\* an id no handshake ever issued
UnknownSid == MaxRequests + 1

\* lines 273-340: the tools the server offers; rebel_status stands for the
\* tools other than rebel_run
TOOLS == {"rebel_run", "rebel_status"}

\* tool names a tools/call request can carry
RequestedTools == TOOLS \cup {"no_such_tool"}

\* the arguments of a rebel_run call, by what _tool_rebel_run makes of them
RunArgs == {"valid", "noprompt", "blocked", "escape", "nondict"}

\* how a tool other than rebel_run ends
StatusEnds == {"plain", "errorkey", "failure", "raise"}

Methods == {"initialize", "tools/list", "tools/call", "no/such"}

Req(id, verb, method, sid, tool, args) ==
    [id |-> id, verb |-> verb, method |-> method, sid |-> sid,
     tool |-> tool, args |-> args]

NoRequest == Req(0, "none", "none", NoSid, "none", "none")

\* requests clients can send with the session ids sids
ServerRequests(sids) ==
    {Req(0, "POST", "initialize", NoSid, "none", "none")}
    \cup {Req(0, "POST", m, s, "none", "none") :
             m \in {"tools/list", "no/such"}, s \in sids}
    \cup {Req(0, "POST", "tools/call", s, "rebel_run", a) :
             s \in sids, a \in RunArgs}
    \cup {Req(0, "POST", "tools/call", s, t, "valid") :
             s \in sids, t \in {"rebel_status", "no_such_tool"}}
    \cup {Req(0, "DELETE", "none", s, "none", "none") : s \in sids}

\* the dict a tool function returns: has it an "error" key, has it a
\* "success" key, and the value under "success"
ToolResult(hasError, hasSuccess, success) ==
    [hasError |-> hasError, hasSuccess |-> hasSuccess, success |-> success]

\* line 435: "error" in result and not result.get("success", True)
IsError(result) ==
    result.hasError /\ ~(IF result.hasSuccess THEN result.success ELSE TRUE)

\* lines 429-437: the tools/call answer
ResultReply(id, result) ==
    [id |-> id, kind |-> "result", isError |-> IsError(result), sid |-> NoSid,
     errorText |-> result.hasError]

Reply(id, kind, sid) ==
    [id |-> id, kind |-> kind, isError |-> FALSE, sid |-> sid,
     errorText |-> FALSE]

\* an entry of the record of answers: the answer, the request it is for and
\* whether the tool function raised (set by the handler that called it)
Answer(req, reply) ==
    [id |-> reply.id, kind |-> reply.kind, isError |-> reply.isError,
     sid |-> reply.sid, verb |-> req.verb, method |-> req.method,
     carried |-> req.sid, tool |-> req.tool, errorText |-> reply.errorText,
     raised |-> FALSE]

(***************************************************************************)
(* MCP server: handlers                                                    *)
(***************************************************************************)
\* mutant: the handshake replaces the map by one holding the new entry only
NewServerSessionAlone(sess, sid) == [s \in {sid} |-> 0]

\* lines 40-43: _new_session
NewServerSession(sess, sid) ==
    [s \in DOMAIN sess \cup {sid} |-> IF s = sid THEN 0 ELSE sess[s]]

\* lines 46-47: _valid_session
ValidSession(sess, sid) == sid \in DOMAIN sess

\* mutant: any session id is good as long as the header is there
AdmittedWithHeader(sess, req) == req.sid # NoSid

\* line 396: the test that admits a request other than initialize
Admitted(sess, req) == req.sid # NoSid /\ ValidSession(sess, req.sid)

\* line 401: the call counter of the session
Counted(sess, sid) == [sess EXCEPT ![sid] = @ + 1]

\* lines 54-90: what _tool_rebel_run returns before it reaches the gate
\* (an empty prompt, a blocked model, a path outside the project root); on
\* arguments that are not an object it raises, and do_POST (lines 424-427)
\* makes {"error": ...} of the exception
RejectedRun(args) ==
    IF args = "nondict" THEN ToolResult(TRUE, FALSE, FALSE)
    ELSE ToolResult(TRUE, TRUE, FALSE)

\* lines 150-270, 424-427: what a tool other than rebel_run gives do_POST
StatusResult(end) ==
    CASE end = "plain"    -> ToolResult(FALSE, FALSE, FALSE)
      [] end = "errorkey" -> ToolResult(TRUE, FALSE, FALSE)
      [] end = "failure"  -> ToolResult(TRUE, TRUE, FALSE)
      [] OTHER            -> ToolResult(TRUE, FALSE, FALSE)

\* lines 424-427: the tool function called for the request raises
HandlerRaises(req, end) ==
    /\ req.method = "tools/call"
    /\ \/ req.tool = "rebel_run" /\ req.args = "nondict"
       \/ req.tool \in TOOLS \ {"rebel_run"} /\ end = "raise"

\* the request reaches subprocess.run of _tool_rebel_run (line 113)
StartsWork(sess, req) ==
    /\ req.verb = "POST"
    /\ req.method = "tools/call"
    /\ Admitted(sess, req)
    /\ req.tool = "rebel_run"
    /\ req.args = "valid"

\* lines 375-441: do_POST for a request that does not reach subprocess.run.
\* Gives the session map, the next id to issue and the answer.
HandlePost(sess, next, req, end) ==
    LET Out(s, n, reply) == [sessions |-> s, nextSid |-> n, reply |-> reply]
    IN  CASE req.method = "initialize" ->
                Out(NewServerSession(sess, next), next + 1,
                    Reply(req.id, "initialized", next))
          [] req.method # "initialize" /\ ~Admitted(sess, req) ->
                Out(sess, next, Reply(req.id, "invalid_session", NoSid))
          [] req.method # "initialize" /\ Admitted(sess, req)
                /\ ~ValidSession(sess, req.sid) ->
                \* line 401 on a key that is not in the map: KeyError leaves
                \* do_POST and no answer is written
                Out(sess, next, Reply(req.id, "fault", NoSid))
          [] OTHER ->
                LET counted == Counted(sess, req.sid)
                IN  CASE req.method = "tools/list" ->
                            Out(counted, next, Reply(req.id, "tools", NoSid))
                      [] req.method = "tools/call" /\ req.tool \notin TOOLS ->
                            Out(counted, next,
                                Reply(req.id, "unknown_tool", NoSid))
                      [] req.method = "tools/call" /\ req.tool = "rebel_run" ->
                            Out(counted, next,
                                ResultReply(req.id, RejectedRun(req.args)))
                      [] req.method = "tools/call" /\ req.tool # "rebel_run"
                            /\ req.tool \in TOOLS ->
                            Out(counted, next,
                                ResultReply(req.id, StatusResult(end)))
                      [] OTHER ->
                            Out(counted, next,
                                Reply(req.id, "method_not_found", NoSid))

\* mutant: the entry is not deleted
HandleDeleteKeeps(sess, sid) == sess

\* lines 447-449: do_DELETE on the session map
HandleDelete(sess, sid) == [s \in DOMAIN sess \ {sid} |-> sess[s]]

\* mutant: the child is started and not waited for (Popen in place of run)
RunReturnsAtOnce(id, alive) == TRUE

\* lines 114-120: subprocess.run returns once its child has exited
RunReturns(id, alive) == id \notin alive

\* lines 139-146: the dict of a run that came back with exit code rc
RunResult(rc) == ToolResult(TRUE, TRUE, rc = 0)

(***************************************************************************)
(* MCP server: actions                                                     *)
(***************************************************************************)
ServerInit ==
    /\ sessions = <<>>
    /\ nextSid = 1
    /\ backlog = <<>>
    /\ reqCount = 0
    /\ serverPc = "idle"
    /\ current = NoRequest
    /\ lockHeld = FALSE
    /\ procs = {}
    /\ replies = <<>>

\* a client sends a request; it waits in the listen queue of the socket
Send ==
    /\ reqCount < MaxRequests
    /\ \E r \in ServerRequests({NoSid, UnknownSid} \cup 1..(nextSid - 1)) :
          backlog' = Append(backlog, [r EXCEPT !.id = reqCount + 1])
    /\ reqCount' = reqCount + 1
    /\ UNCHANGED <<sessions, nextSid, serverPc, current, lockHeld, procs,
                   replies>>
    /\ UNCHANGED serverFrame

\* serve_forever takes the next request: do_POST up to its answer
DoPost ==
    /\ serverPc = "idle"
    /\ backlog # <<>>
    /\ Head(backlog).verb = "POST"
    /\ ~StartsWork(sessions, Head(backlog))
    /\ \E end \in StatusEnds :
          LET h == HandlePost(sessions, nextSid, Head(backlog), end)
          IN  /\ sessions' = h.sessions
              /\ nextSid' = h.nextSid
              /\ replies' = Append(replies,
                    [Answer(Head(backlog), h.reply) EXCEPT
                        !.raised = h.reply.kind = "result"
                                   /\ HandlerRaises(Head(backlog), end)])
    /\ backlog' = Tail(backlog)
    /\ UNCHANGED <<reqCount, serverPc, current, lockHeld, procs>>
    /\ UNCHANGED serverFrame

\* lines 443-451: do_DELETE
DoDelete ==
    /\ serverPc = "idle"
    /\ backlog # <<>>
    /\ Head(backlog).verb = "DELETE"
    /\ sessions' = HandleDelete(sessions, Head(backlog).sid)
    /\ replies' = Append(replies,
                         Answer(Head(backlog),
                                Reply(Head(backlog).id, "closed", NoSid)))
    /\ backlog' = Tail(backlog)
    /\ UNCHANGED <<nextSid, reqCount, serverPc, current, lockHeld, procs>>
    /\ UNCHANGED serverFrame

\* do_POST for a rebel_run call that passes validation: the gate is taken
\* (line 113) and the child started; when it cannot be started the
\* exception leaves the with block and line 126 makes the result of it
RebelRunStart ==
    /\ serverPc = "idle"
    /\ backlog # <<>>
    /\ StartsWork(sessions, Head(backlog))
    /\ ~lockHeld
    /\ sessions' = Counted(sessions, Head(backlog).sid)
    /\ backlog' = Tail(backlog)
    /\ \E started \in BOOLEAN :
          IF started
          THEN /\ lockHeld' = TRUE
               /\ procs' = procs \cup {Head(backlog).id}
               /\ serverPc' = "running"
               /\ current' = Head(backlog)
               /\ UNCHANGED replies
          ELSE /\ replies' = Append(replies,
                      Answer(Head(backlog),
                             ResultReply(Head(backlog).id,
                                         ToolResult(TRUE, TRUE, FALSE))))
               /\ UNCHANGED <<lockHeld, procs, serverPc, current>>
    /\ UNCHANGED <<nextSid, reqCount>>
    /\ UNCHANGED serverFrame

\* a host-assistant process exits
ProcExit ==
    /\ \E p \in procs : procs' = procs \ {p}
    /\ UNCHANGED <<sessions, nextSid, backlog, reqCount, serverPc, current,
                   lockHeld, replies>>
    /\ UNCHANGED serverFrame

\* subprocess.run returns, the gate is released and the answer is sent
RebelRunReturn ==
    /\ serverPc = "running"
    /\ RunReturns(current.id, procs)
    /\ lockHeld' = FALSE
    /\ \E rc \in {0, 1} :
          replies' = Append(replies,
                            Answer(current,
                                   ResultReply(current.id, RunResult(rc))))
    /\ serverPc' = "idle"
    /\ current' = NoRequest
    /\ UNCHANGED <<sessions, nextSid, backlog, reqCount, procs>>
    /\ UNCHANGED serverFrame

\* mutant: the gate stays taken when the run times out
RebelRunTimeoutKeepsGate ==
    /\ serverPc = "running"
    /\ current.id \in procs
    /\ procs' = procs \ {current.id}
    /\ replies' = Append(replies,
                         Answer(current,
                                ResultReply(current.id,
                                            ToolResult(TRUE, TRUE, FALSE))))
    /\ serverPc' = "idle"
    /\ current' = NoRequest
    /\ UNCHANGED <<sessions, nextSid, backlog, reqCount, lockHeld>>
    /\ UNCHANGED serverFrame

\* lines 118, 121-122: the 300 s are over; subprocess.run kills the child,
\* waits for it and raises TimeoutExpired, which releases the gate
RebelRunTimeout ==
    /\ serverPc = "running"
    /\ current.id \in procs
    /\ procs' = procs \ {current.id}
    /\ lockHeld' = FALSE
    /\ replies' = Append(replies,
                         Answer(current,
                                ResultReply(current.id,
                                            ToolResult(TRUE, TRUE, FALSE))))
    /\ serverPc' = "idle"
    /\ current' = NoRequest
    /\ UNCHANGED <<sessions, nextSid, backlog, reqCount>>
    /\ UNCHANGED serverFrame

NextServer ==
    Send \/ DoPost \/ DoDelete \/ RebelRunStart \/ ProcExit \/ RebelRunReturn
    \/ RebelRunTimeout

(***************************************************************************)
(* hooks.py : the wrapped host operations (_patch_send_message,            *)
(* _patch_apply_edits, _patch_auto_commit)                                 *)
(***************************************************************************)
\* the host operations install_hooks wraps
WrappedOps == {"send_message", "apply_edits", "auto_commit"}

\* the event fired before the operation
Before(op) ==
    CASE op = "send_message" -> "pre_message"
      [] op = "apply_edits" -> "pre_edit"
      [] OTHER -> "pre_commit"

\* the event fired after the operation
After(op) ==
    CASE op = "send_message" -> "post_message"
      [] op = "apply_edits" -> "post_edit"
      [] OTHER -> "post_commit"

\* how the original operation ends
OriginalEnds == {"returns", "raises"}

\* an entry of the record of a wrapped call: a firing, or the call of the
\* original operation
Fired(f) ==
    [kind |-> "fire", event |-> f.event, cancelled |-> f.cancelled,
     handlers |-> Len(f.invoked)]

Original(end) ==
    [kind |-> "original", event |-> "none", cancelled |-> FALSE, handlers |-> 0]

\* mutant: the after-event is fired although the operation was vetoed
HookedOpAfterAnyway(reg, op, pre, post, end) ==
    LET before == FireOp(reg, Before(op), pre)
        after == FireOp(reg, After(op), post) IN
    IF before.cancelled
    THEN [op |-> op, log |-> <<Fired(before), Fired(after)>>, ended |-> "vetoed"]
    ELSE IF end = "raises"
    THEN [op |-> op, log |-> <<Fired(before), Original(end)>>, ended |-> "raised"]
    ELSE [op |-> op, log |-> <<Fired(before), Original(end), Fired(after)>>,
          ended |-> "returned"]

\* hooked_send_message / hooked_apply_edits / hooked_auto_commit: fire the
\* before-event; return at once when it was cancelled; call the original (an
\* exception of it leaves the wrapper); fire the after-event
HookedOp(reg, op, pre, post, end) ==
    LET before == FireOp(reg, Before(op), pre)
        after == FireOp(reg, After(op), post) IN
    IF before.cancelled
    THEN [op |-> op, log |-> <<Fired(before)>>, ended |-> "vetoed"]
    ELSE IF end = "raises"
    THEN [op |-> op, log |-> <<Fired(before), Original(end)>>, ended |-> "raised"]
    ELSE [op |-> op, log |-> <<Fired(before), Original(end), Fired(after)>>,
          ended |-> "returned"]

NoWrapped == [op |-> "none", log |-> <<>>, ended |-> "none"]

WrapInit == wrapped = NoWrapped

\* the events of one wrapped operation
EventsOf(op) == {Before(op), After(op)}

\* the registries the wrapped operations run against: up to two handlers on
\* the events of one operation
WrapRegistries ==
    {<<>>}
    \cup {RegisterOp(<<>>, HookRegistration(1, e, p, "h1")) :
            e \in UNION {EventsOf(op) : op \in WrappedOps}, p \in Priorities}
    \cup {RegisterOp(RegisterOp(<<>>, HookRegistration(1, e1, 10, "h1")),
                     HookRegistration(2, e2, p, "h2")) :
            e1 \in {Before(op) : op \in WrappedOps},
            e2 \in UNION {EventsOf(op) : op \in WrappedOps}, p \in Priorities}

\* the host calls a wrapped operation; what the handlers and the original do
\* is chosen by the environment
HookedCall ==
    /\ wrapped = NoWrapped
    /\ \E op \in WrappedOps, end \in OriginalEnds :
         \E pre \in [EligibleIds(registry, Before(op)) -> Outcomes],
            post \in [EligibleIds(registry, After(op)) -> Outcomes] :
            wrapped' = HookedOp(registry, op, pre, post, end)
    /\ UNCHANGED wrapFrame

\* the host is done with the call
HookedReturn ==
    /\ wrapped # NoWrapped
    /\ wrapped' = NoWrapped
    /\ UNCHANGED wrapFrame

NextWrap == HookedCall \/ HookedReturn

(***************************************************************************)
(* watch_mode.py : start, stop and the rebel-watch threads                 *)
(***************************************************************************)
\* Where a rebel-watch thread stands:
\*   "while"  at the test of `while _watching` (line 207)
\*   "scan"   in _find_annotations (line 209)
\*   "test"   in _run_rebel_on_annotation, at `if _active_task` (line 142)
\*   "set"    past that test, before `_active_task = True` (line 145)
\*   "run"    in the try block: coder.run or the subprocess (lines 158-188)
\*   "sleep"  in the sleep of the loop (lines 219-222)
\*   "exited" the thread has left _watch_loop
LoopPcs == {"while", "scan", "test", "set", "run", "sleep", "exited"}

WatchInit ==
    /\ watching = FALSE
    /\ activeTask = FALSE
    /\ loops = <<>>

\* start(): a second call while watching only prints; otherwise the flag is
\* set and a new thread is started on _watch_loop
WatchStart ==
    /\ ~watching
    /\ Len(loops) < MaxLoops
    /\ watching' = TRUE
    /\ loops' = Append(loops, "while")
    /\ UNCHANGED activeTask
    /\ UNCHANGED watchFrame

\* stop(): the flag is cleared; nothing waits for the thread
WatchStop ==
    /\ watching' = FALSE
    /\ UNCHANGED <<activeTask, loops>>
    /\ UNCHANGED watchFrame

\* line 207: while _watching
LoopTest ==
    /\ \E t \in DOMAIN loops :
          /\ loops[t] = "while"
          /\ loops' = [loops EXCEPT ![t] = IF watching THEN "scan" ELSE "exited"]
    /\ UNCHANGED <<watching, activeTask>>
    /\ UNCHANGED watchFrame

\* lines 209-214: scan; with an annotation found and the flag still set the
\* thread calls _run_rebel_on_annotation
LoopScan ==
    /\ \E t \in DOMAIN loops, found \in BOOLEAN :
          /\ loops[t] = "scan"
          /\ loops' = [loops EXCEPT
                          ![t] = IF found /\ watching THEN "test" ELSE "sleep"]
    /\ UNCHANGED <<watching, activeTask>>
    /\ UNCHANGED watchFrame

\* lines 142-143: if _active_task: return False
TaskTest ==
    /\ \E t \in DOMAIN loops :
          /\ loops[t] = "test"
          /\ loops' = [loops EXCEPT ![t] = IF activeTask THEN "sleep" ELSE "set"]
    /\ UNCHANGED <<watching, activeTask>>
    /\ UNCHANGED watchFrame

\* line 145: _active_task = True
TaskSet ==
    /\ \E t \in DOMAIN loops :
          /\ loops[t] = "set"
          /\ loops' = [loops EXCEPT ![t] = "run"]
    /\ activeTask' = TRUE
    /\ UNCHANGED watching
    /\ UNCHANGED watchFrame

\* lines 188-194: the task returns or raises; finally: _active_task = False
TaskEnd ==
    /\ \E t \in DOMAIN loops :
          /\ loops[t] = "run"
          /\ loops' = [loops EXCEPT ![t] = "sleep"]
    /\ activeTask' = FALSE
    /\ UNCHANGED watching
    /\ UNCHANGED watchFrame

\* lines 219-222: the sleep is over (or was cut short by the cleared flag)
LoopSleep ==
    /\ \E t \in DOMAIN loops :
          /\ loops[t] = "sleep"
          /\ loops' = [loops EXCEPT ![t] = "while"]
    /\ UNCHANGED <<watching, activeTask>>
    /\ UNCHANGED watchFrame

NextWatch ==
    WatchStart \/ WatchStop \/ LoopTest \/ LoopScan \/ TaskTest \/ TaskSet
    \/ TaskEnd \/ LoopSleep

(***************************************************************************)
(* yolo.py : activate and deactivate, with the state they touch            *)
(***************************************************************************)
\* patterns of bash_tools.AUTO_APPROVED as the module defines it
BasePatterns == {"docker read", "pytest", "git read"}

\* YOLO_EXTRA_PATTERNS, in order; none is a pattern of AUTO_APPROVED
YOLO_EXTRA_PATTERNS == <<"docker mutate", "git write">>

\* an entry of the allowlist; yolo tells whether its label starts "[YOLO]"
Approved(pattern, yolo) == [pattern |-> pattern, yolo |-> yolo]

\* for pattern, label in YOLO_EXTRA_PATTERNS: append unless an entry of the
\* list has the pattern
RECURSIVE InstallYoloPatterns(_, _)
InstallYoloPatterns(list, k) ==
    IF k > Len(YOLO_EXTRA_PATTERNS) THEN list
    ELSE LET pattern == YOLO_EXTRA_PATTERNS[k]
             present == \E i \in DOMAIN list : list[i].pattern = pattern
         IN InstallYoloPatterns(
                IF present THEN list ELSE Append(list, Approved(pattern, TRUE)),
                k + 1)

\* the entries whose label does not start "[YOLO]", in order
RemoveYoloPatterns(list) == SelectSeq(list, LAMBDA e : ~e.yolo)

\* what the allowlist, plan mode and the coder's flag were
Safeguards == [allowlist |-> allowlist, planMode |-> planMode, ioYes |-> ioYes]

\* the coder a session hands to activate and deactivate: none, a coder that
\* has no io attribute, a coder that has one
Coders == {"none", "bare", "io"}

\* allowlists the session can start from: AUTO_APPROVED entries, none twice
BaseLists(n) ==
    {l \in UNION {[1..m -> {Approved(p, FALSE) : p \in BasePatterns}] :
                     m \in 0..n} :
        \A a, b \in DOMAIN l : a # b => l[a] # l[b]}

YoloInit ==
    /\ yoloActive = FALSE
    /\ allowlist = <<>>
    /\ planMode = FALSE
    /\ ioYes = FALSE
    /\ yoloBefore = <<>>
    /\ yoloCoder = "io"

\* activate(reason, coder)
Activate ==
    /\ ioYes' = IF yoloCoder = "io" THEN TRUE ELSE ioYes
    /\ yoloActive' = TRUE
    /\ planMode' = FALSE
    /\ allowlist' = InstallYoloPatterns(allowlist, 1)
    /\ yoloBefore' = IF yoloActive THEN yoloBefore ELSE <<Safeguards>>
    /\ UNCHANGED yoloCoder
    /\ UNCHANGED yoloFrame

\* deactivate(coder)
Deactivate ==
    /\ ioYes' = IF yoloCoder = "io" THEN FALSE ELSE ioYes
    /\ yoloActive' = FALSE
    /\ allowlist' = RemoveYoloPatterns(allowlist)
    /\ UNCHANGED <<planMode, yoloBefore, yoloCoder>>
    /\ UNCHANGED yoloFrame

NextYolo == Activate \/ Deactivate

(***************************************************************************)
(* Specifications                                                          *)
(***************************************************************************)
vars == <<hookVars, agentVars, clientVars, serverVars, wrapVars, watchVars,
          yoloVars>>

\* the dispatcher on its own
\* the components a specification does not exercise, in their initial state
CoreInit == HooksInit /\ AgentInit /\ ClientInit /\ ServerInit

InitHooks == CoreInit /\ WrapInit /\ WatchInit /\ YoloInit

SpecHooks == InitHooks /\ [][NextHooks]_vars

\* the orchestrator, over a registry that does not change during the runs
InitAgent ==
    /\ registry \in AgentRegistries
    /\ nextId = Len(registry) + 1
    /\ lastFire = NoFire
    /\ hookCall = NoCall
    /\ AgentInit
    /\ ClientInit
    /\ ServerInit
    /\ WrapInit /\ WatchInit /\ YoloInit

SpecAgent == InitAgent /\ [][NextAgent]_vars

\* the orchestrator with an operator who answers every prompt and with
\* collaborators that are left to run: whatever step run_agent can take is
\* eventually taken
FairAgent == SpecAgent /\ WF_vars(NextAgent)

\* the MCP client alone
InitClient == CoreInit /\ WrapInit /\ WatchInit /\ YoloInit

SpecClient == InitClient /\ [][NextClient]_vars

\* the MCP server and its clients
InitServer == CoreInit /\ WrapInit /\ WatchInit /\ YoloInit

SpecServer == InitServer /\ [][NextServer]_vars

\* serve_forever takes up every request that waits, and subprocess.run comes
\* back: its child exits, or the 300 s timeout of line 118 ends it
FairServer ==
    /\ SpecServer
    /\ WF_vars(DoPost \/ DoDelete \/ RebelRunStart)
    /\ WF_vars(RebelRunReturn \/ RebelRunTimeout)

\* the wrapped host operations, over a registry that does not change
InitWrap ==
    /\ registry \in WrapRegistries
    /\ nextId = Len(registry) + 1
    /\ lastFire = NoFire
    /\ hookCall = NoCall
    /\ AgentInit /\ ClientInit /\ ServerInit
    /\ WrapInit /\ WatchInit /\ YoloInit

SpecWrap == InitWrap /\ [][NextWrap]_vars

\* watch mode: the thread calling start and stop, and the rebel-watch threads
InitWatch == CoreInit /\ WrapInit /\ WatchInit /\ YoloInit

SpecWatch == InitWatch /\ [][NextWatch]_vars

\* YOLO mode: any sequence of activate and deactivate calls, from any plan
\* mode, coder flag and allowlist
InitYolo ==
    /\ CoreInit /\ WrapInit /\ WatchInit
    /\ yoloActive = FALSE
    /\ allowlist \in BaseLists(MaxBase)
    /\ planMode \in BOOLEAN
    /\ ioYes \in BOOLEAN
    /\ yoloBefore = <<>>
    /\ yoloCoder \in Coders

SpecYolo == InitYolo /\ [][NextYolo]_vars

(***************************************************************************)
(* Dispatcher properties                                                   *)
(***************************************************************************)
\* position in the registry of the registration with identity id
RegistryPos(id) == CHOOSE i \in DOMAIN registry : registry[i].id = id

\* C1: priority ordering. In every firing, of two invoked handlers with
\* different priorities the one with the lower priority is invoked first,
\* whichever of the two was registered first.
C1_PriorityOrder ==
    \A i, j \in DOMAIN lastFire.invoked :
        lastFire.invoked[i].priority < lastFire.invoked[j].priority => i < j

\* C1 witness: a firing invoked a handler of priority 10 before one of
\* priority 90 although the priority-90 handler was registered first.
C1_Witness ==
    \E i, j \in DOMAIN lastFire.invoked :
        /\ i < j
        /\ lastFire.invoked[i].priority < lastFire.invoked[j].priority
        /\ lastFire.invoked[i].id > lastFire.invoked[j].id

\* C2: cancellation short-circuit. A handler that returns False is the last
\* handler invoked in that firing, and the returned context has
\* cancelled = true with a reason that contains that handler's name.
C2_CancelShortCircuit ==
    \A k \in DOMAIN lastFire.invoked :
        lastFire.invoked[k].outcome = "false" =>
            /\ k = Len(lastFire.invoked)
            /\ lastFire.cancelled
            /\ \E i \in DOMAIN lastFire.cancel_reason :
                  lastFire.cancel_reason[i] = lastFire.invoked[k].name

\* C2 witness: a handler returned False while an enabled handler for the same
\* event stood behind it in the registry, and that handler was not invoked.
C2_Witness ==
    /\ lastFire # NoFire
    /\ lastFire.invoked # <<>>
    /\ lastFire.invoked[Len(lastFire.invoked)].outcome = "false"
    /\ Len(Eligible(registry, lastFire.event)) > Len(lastFire.invoked)

\* C3: handler isolation. When a handler raises, the exception does not leave
\* fire; every enabled handler for the event that stands behind the raising one
\* is still invoked unless a handler in between returned False; and when no
\* handler returned False or called cancel(), the context is not cancelled.
C3_HandlerIsolation ==
    LET E == Eligible(registry, lastFire.event)
        inv == lastFire.invoked
        InvokedIds == {inv[i].id : i \in DOMAIN inv}
        FalseBefore(m) ==
            \E i \in DOMAIN inv :
                inv[i].outcome = "false" /\ RegistryPos(inv[i].id) < RegistryPos(E[m].id)
    IN  \A k \in DOMAIN inv :
            inv[k].outcome = "raise" =>
                /\ ~lastFire.propagated
                /\ \A m \in DOMAIN E :
                      (RegistryPos(E[m].id) > RegistryPos(inv[k].id) /\ ~FalseBefore(m))
                          => E[m].id \in InvokedIds
                /\ (\A i \in DOMAIN inv : inv[i].outcome \in {"none", "raise"})
                      => ~lastFire.cancelled

\* C3 witness: a handler raised, a later handler was invoked after it, and the
\* firing was not cancelled.
C3_Witness ==
    \E k \in DOMAIN lastFire.invoked :
        /\ lastFire.invoked[k].outcome = "raise"
        /\ k < Len(lastFire.invoked)
        /\ ~lastFire.cancelled

(***************************************************************************)
(* Orchestrator properties                                                 *)
(***************************************************************************)
\* C4: step cap. The session returned by plan_goal holds the first MAX_STEPS
\* entries of the planner's steps list in their order (all of them when there
\* are fewer), and a run never executes more than MAX_STEPS steps.
C4_StepCap ==
    /\ session # NoSession =>
          LET n == Len(plannerSteps)
              m == IF n > MAX_STEPS THEN MAX_STEPS ELSE n
          IN  /\ Len(session.steps) = m
              /\ \A i \in 1..m :
                    session.steps[i].description = plannerSteps[i].description
    /\ Len(entered) <= MAX_STEPS
    /\ \A i, j \in DOMAIN entered : i < j => entered[i].pos < entered[j].pos

\* C4 witness: the planner listed more than MAX_STEPS steps and the run that
\* followed executed exactly MAX_STEPS of them.
C4_Witness ==
    /\ Len(plannerSteps) > MAX_STEPS
    /\ agentPc = "returned"
    /\ Len(session.steps) = MAX_STEPS
    /\ Len(entered) = MAX_STEPS

\* C5 (as claimed): once the command of a shell step has returned a non-zero
\* exit code, the step is failed, no later step of the plan is executed and
\* the session does not end done but failed.
C5_ShellFailureAborts ==
    \A k \in DOMAIN calls :
        (calls[k].target = "run_approved" /\ calls[k].result = "rc_nonzero") =>
            /\ session.steps[calls[k].pos].status = "failed"
            /\ \A e \in DOMAIN entered : entered[e].pos <= calls[k].pos
            /\ session.status # "done"
            /\ agentPc = "returned" => session.status = "failed"

\* the response holds no JSON value: it is not JSON and embeds no JSON block
NoJsonText(raw) == "object" \notin Range(raw) /\ "nonobject" \notin Range(raw)

\* C6: planning failure. When the planning call returns text that holds no
\* JSON, run_agent returns False without raising: plan_goal gave no session,
\* no step is executed and the active session is not set.
C6_PlanningFailure ==
    [][(agentPc = "idle" /\ agentPc' # "idle" /\ NoJsonText(plannerRaw')) =>
          /\ agentPc' = "returned"
          /\ runResult' = "false"
          /\ session' = NoSession
          /\ activeSession' = activeSession
          /\ entered' = <<>>
          /\ calls' = <<>>]_vars

\* C6 witness: a run has returned False on a response that holds text (prose,
\* a fence, braces) but no JSON.
C6_Witness ==
    /\ agentPc = "returned"
    /\ runResult = "false"
    /\ session = NoSession
    /\ plannerRaw # <<>>
    /\ NoJsonText(plannerRaw)
    /\ "brace" \in Range(plannerRaw)

\* the results with which a collaborator call has succeeded
SuccessResults == {"ok", "rc0_out", "rc0_blank", "text", "empty"}

\* every step of the session had its collaborator called, and every call made
\* for it succeeded
EveryCallSucceeded ==
    \A p \in DOMAIN session.steps :
        /\ \E k \in DOMAIN calls : calls[k].pos = p
        /\ \A k \in DOMAIN calls :
              calls[k].pos = p => calls[k].result \in SuccessResults

\* C10: with auto-approval, a finished run in which every step's collaborator
\* call succeeded has executed every planned step exactly once in plan order,
\* every step is done, the session is done and run_agent returned True.
C10_AllStepsDone ==
    (agentPc = "returned" /\ autoApprove /\ session # NoSession
       /\ EveryCallSucceeded) =>
        /\ entered = [i \in DOMAIN session.steps |->
                         [pos |-> i, vetoed |-> FALSE, asked |-> FALSE]]
        /\ \A p \in DOMAIN session.steps : session.steps[p].status = "done"
        /\ session.status = "done"
        /\ runResult = "true"

\* C10 witness: an auto-approved run of a message step and a shell step has
\* returned with both collaborators having succeeded.
C10_Witness ==
    /\ agentPc = "returned"
    /\ autoApprove
    /\ Len(session.steps) = 2
    /\ session.steps[1].action = "message"
    /\ session.steps[2].action = "shell"
    /\ EveryCallSucceeded
    /\ runResult = "true"

(***************************************************************************)
(* Client properties                                                       *)
(***************************************************************************)
\* C7 (as claimed): no request the client sends, JSON-RPC request or close
\* (DELETE) request, carries in its header a session identifier with a
\* character other than letters, digits, '-' and '_'.
C7_OnlySafeIdsSent ==
    \A i \in DOMAIN sent : IsSafe(sent[i].sid)

\* C8: list_tools returns exactly the entries of the server's tools list that
\* are objects with a name field, unchanged and in the server's order, and an
\* error response yields the empty list.
C8_ListToolsFilter ==
    (clientResult.op = "list_tools" /\ clientResult.raised = "none"
       /\ served # <<>>) =>
        LET resp == served[1]
            tools == resp.doc.tools
            W == {i \in DOMAIN tools : tools[i].isDict /\ tools[i].hasName}
            Kth(k) == CHOOSE i \in W : Cardinality({j \in W : j < i}) = k - 1
        IN  IF resp.kind # "ok" \/ resp.doc.error
            THEN clientResult.tools = <<>>
            ELSE resp.doc.toolsKind = "list" =>
                   /\ Len(clientResult.tools) = Cardinality(W)
                   /\ \A k \in 1..Len(clientResult.tools) :
                         clientResult.tools[k] = tools[Kth(k)]

\* C8 witness: the server listed an object without a name and then an object
\* with one, and list_tools returned the second alone.
C8_Witness ==
    /\ clientResult.op = "list_tools"
    /\ clientResult.raised = "none"
    /\ served # <<>>
    /\ served[1].kind = "ok"
    /\ ~served[1].doc.error
    /\ served[1].doc.toolsKind = "list"
    /\ Len(served[1].doc.tools) = 2
    /\ served[1].doc.tools[1].isDict /\ ~served[1].doc.tools[1].hasName
    /\ served[1].doc.tools[2].isDict /\ served[1].doc.tools[2].hasName
    /\ clientResult.tools = <<served[1].doc.tools[2]>>

(***************************************************************************)
(* Server properties                                                       *)
(***************************************************************************)
\* C9: at most one rebel_run invocation has its host-assistant process
\* running at any time, whatever the sessions and however many tools/call
\* requests are outstanding; the process that runs belongs to the invocation
\* that holds the gate, so no other invocation starts its work before that
\* one has finished.
C9_OneRebelRunAtATime ==
    /\ Cardinality(procs) <= 1
    /\ procs # {} => /\ lockHeld
                     /\ serverPc = "running"
                     /\ procs = {current.id}

\* C9 witness: the process of one rebel_run invocation is running while a
\* second rebel_run call that will reach the gate has been sent and waits.
C9_Witness ==
    /\ procs # {}
    /\ \E i \in DOMAIN backlog : StartsWork(sessions, backlog[i])

(***************************************************************************)
(* Orchestrator properties: audit, status, active session                  *)
(***************************************************************************)
\* the steps of the session that ended with status done
DoneSteps == {p \in DOMAIN session.steps : session.steps[p].status = "done"}

\* C11 (as claimed): when a session has ended, the audit records the run
\* wrote equal in number the steps with status done; stated for the sessions
\* in which two or more steps are done.
C11_AuditPerDoneStep ==
    (agentPc = "returned" /\ session # NoSession
       /\ Cardinality(DoneSteps) >= 2) =>
        audit = Cardinality(DoneSteps)

(***************************************************************************)
(* Server properties: sessions                                             *)
(***************************************************************************)
\* the server thread takes up the request at the head of the listen queue
Serves == serverPc = "idle" /\ backlog # <<>> /\ backlog' = Tail(backlog)

\* the answer sent in this step
Sent(kind) ==
    /\ Len(replies') = Len(replies) + 1
    /\ replies'[Len(replies')].id = Head(backlog).id
    /\ replies'[Len(replies')].kind = kind

\* C12: a POST request with a method other than initialize whose session id
\* is missing or not in the session map is answered with the -32000 error;
\* no tool runs, no catalog is returned, and the session map stays as it is.
C12_UnknownSessionRejected ==
    [][(/\ Serves
        /\ Head(backlog).verb = "POST"
        /\ Head(backlog).method # "initialize"
        /\ (Head(backlog).sid = NoSid
              \/ Head(backlog).sid \notin DOMAIN sessions))
       => /\ Sent("invalid_session")
          /\ sessions' = sessions
          /\ nextSid' = nextSid
          /\ procs' = procs
          /\ lockHeld' = lockHeld
          /\ serverPc' = "idle"]_vars

\* C12 witness: while a session exists, a rebel_run call that carried an
\* unknown session id has been answered with the error and nothing runs.
C12_Witness ==
    /\ replies # <<>>
    /\ replies[Len(replies)].kind = "invalid_session"
    /\ replies[Len(replies)].carried = UnknownSid
    /\ replies[Len(replies)].tool = "rebel_run"
    /\ DOMAIN sessions # {}
    /\ procs = {}

\* C13: a close (DELETE) for S removes S from the session map, answers
\* no-content whether or not S was known, and changes nothing else; an id
\* enters the map only as the fresh id of a handshake, so a closed S is never
\* admitted again and every later request carrying it is rejected; an id
\* leaves the map only by a close for it, so an unclosed session stays valid.
C13_CloseIsFinal ==
    [][/\ (Serves /\ Head(backlog).verb = "DELETE") =>
              /\ Sent("closed")
              /\ DOMAIN sessions' = DOMAIN sessions \ {Head(backlog).sid}
              /\ \A s \in DOMAIN sessions' : sessions'[s] = sessions[s]
              /\ nextSid' = nextSid
       /\ \A s \in DOMAIN sessions' \ DOMAIN sessions :
              s = nextSid /\ nextSid' = nextSid + 1
       /\ \A s \in DOMAIN sessions \ DOMAIN sessions' :
              Serves /\ Head(backlog).verb = "DELETE" /\ Head(backlog).sid = s
       /\ \A s \in DOMAIN sessions : s < nextSid
       /\ nextSid' >= nextSid
       /\ (/\ Serves
           /\ Head(backlog).verb = "POST"
           /\ Head(backlog).method # "initialize"
           /\ Head(backlog).sid \notin DOMAIN sessions) =>
              Sent("invalid_session") /\ sessions' = sessions]_vars

\* C13 witness: a session was issued, closed, and a later request that
\* carried its id has been rejected.
C13_Witness ==
    \E h, i, j \in DOMAIN replies :
        /\ h < i /\ i < j
        /\ replies[h].kind = "initialized"
        /\ replies[i].kind = "closed"
        /\ replies[i].carried = replies[h].sid
        /\ replies[j].kind = "invalid_session"
        /\ replies[j].carried = replies[h].sid

\* the statuses in which a session ends
Terminal == {"done", "failed", "cancelled"}

\* the status moves of the claimed life cycle; "none" stands for no session
\* object: plan_goal creates one in planning (an auto-approved run is at
\* running before its first wait), and a terminal one is dropped on return
LifeCycle ==
    {<<"none", "planning">>, <<"none", "running">>, <<"planning", "running">>}
    \cup {<<"running", t>> : t \in Terminal}
    \cup {<<t, "none">> : t \in Terminal}

\* C14 (as claimed): the status of a session only moves planning -> running
\* -> done, failed or cancelled; no terminal status is reached without
\* passing through running, and a terminal status never changes.
C14_TerminalOnlyAfterRunning ==
    [][session'.status # session.status =>
          <<session.status, session'.status>> \in LifeCycle]_vars

\* C14 (amended): the status only moves planning -> running -> done, failed
\* or cancelled, or planning -> cancelled when the operator rejects the
\* plan; a terminal status never changes.
C14_StatusMoves ==
    [][session'.status # session.status =>
          <<session.status, session'.status>> \in
              LifeCycle \cup {<<"planning", "cancelled">>}]_vars

\* C14 witness: the plan was rejected at the approval prompt: the run has
\* returned with the session cancelled and no step was ever entered (its
\* first step needs no confirmation, so no abort can have come first).
C14_Witness ==
    /\ agentPc = "returned"
    /\ session.status = "cancelled"
    /\ ~autoApprove
    /\ entered = <<>>
    /\ Len(session.steps) > 0
    /\ session.steps[1].index = 1
    /\ \A p \in DOMAIN session.steps : session.steps[p].status = "pending"

\* C15 (as claimed): whenever no run is in progress the active-session slot
\* is empty: a run that set it has cleared it again by the time it returns.
C15_ActiveSessionReleased ==
    agentPc \in {"idle", "returned"} => ~activeSession

(***************************************************************************)
(* Client properties: one-shot call, error handling, tool names            *)
(***************************************************************************)
\* C16 (as claimed): a use of the one-shot call whose handshake answer
\* carried a session id has sent a close (DELETE) request for that id by the
\* time it returns or raises, and the session object then holds no id;
\* stated for the ids the HTTP library accepts as a header value.
C16_OneShotCloses ==
    (/\ clientResult.op = "call"
     /\ served # <<>>
     /\ served[1].kind \in HeaderKinds
     /\ served[1].sid # <<>>
     /\ HeaderLegal(served[1].sid)) =>
        /\ \E i \in DOMAIN sent :
              sent[i].verb = "DELETE" /\ sent[i].sid = served[1].sid
        /\ sessionId = <<>>

\* the server outcomes the claim lists: unreachable host, timeout, non-JSON
\* body, JSON-RPC error response
ListedOutcomes == {"unreachable", "timeout", "notjson", "rpcerror"}

\* C17 (as claimed): when every answer of the server was one of the listed
\* outcomes, call_tool and the one-shot call have returned an error string
\* and initialize has returned false; none of them has raised.
C17_ErrorsAreStrings ==
    (/\ clientResult.op \in {"initialize", "call_tool", "call"}
     /\ served # <<>>
     /\ \A i \in DOMAIN served : served[i].kind \in ListedOutcomes) =>
        /\ clientResult.raised = "none"
        /\ clientResult.op = "initialize" => ~clientResult.ok
        /\ clientResult.op \in {"call_tool", "call"} =>
              clientResult.text.kind \in {"error_from", "invalid_name"}

\* the tool name is empty or has a character other than letters, digits,
\* '-' and '_'
UnsafeName(name) ==
    \/ name = <<>>
    \/ \E i \in DOMAIN name : ~(IsAlnum(name[i]) \/ name[i] \in {"-", "_"})

\* C18: a call_tool with an empty tool name, or one with a character other
\* than letters, digits, '-' and '_', sends no request, returns the
\* invalid-name error string and leaves the session id as it was.
C18_BadToolNameNotSent ==
    [][(clientResult'.op = "call_tool" /\ UnsafeName(clientResult'.name)) =>
          /\ sent' = <<>>
          /\ served' = <<>>
          /\ sessionId' = sessionId
          /\ clientResult'.raised = "none"
          /\ clientResult'.text.kind = "invalid_name"]_vars

\* C18 witness: a session that holds an id was asked for the tool "a." and
\* answered with the error string without sending anything.
C18_Witness ==
    /\ clientResult.op = "call_tool"
    /\ clientResult.name = <<"a", ".">>
    /\ clientResult.text.kind = "invalid_name"
    /\ sent = <<>>
    /\ sessionId # <<>>

(***************************************************************************)
(* Dispatcher properties: cancellation by cancel(), registry order         *)
(***************************************************************************)
\* C19 (as claimed): within one firing, a handler that made the context
\* cancelled, by returning False or by calling the context's cancel(), is
\* the last handler invoked in that firing.
C19_NoHandlerAfterCancelled ==
    \A k \in DOMAIN lastFire.invoked :
        lastFire.invoked[k].outcome \in {"false", "cancel"} =>
            k = Len(lastFire.invoked)

\* C20: the registry is sorted by non-decreasing priority, and registrations
\* of equal priority stand in the order they were registered (the order of
\* their identities), whatever registrations, removals, enablings and
\* disablings came before; a firing invokes its handlers in registry order,
\* so firings over an unchanged registry invoke them in the same order.
C20_RegistrySorted ==
    /\ \A i, j \in DOMAIN registry :
          i < j => /\ registry[i].priority <= registry[j].priority
                   /\ registry[i].priority = registry[j].priority =>
                         registry[i].id < registry[j].id
    /\ \A i, j \in DOMAIN lastFire.invoked :
          i < j => RegistryPos(lastFire.invoked[i].id)
                       < RegistryPos(lastFire.invoked[j].id)

\* C20 witness: the registration made last stands first and is disabled, the
\* two behind it have equal priority and stand in registration order, and a
\* firing has invoked those two in that order.
C20_Witness ==
    /\ Len(registry) = 3
    /\ registry[1].id = 3 /\ ~registry[1].enabled
    /\ registry[2].id = 1 /\ registry[3].id = 2
    /\ registry[2].priority = registry[3].priority
    /\ Len(lastFire.invoked) = 2
    /\ lastFire.invoked[1].id = 1 /\ lastFire.invoked[2].id = 2

(***************************************************************************)
(* Dispatcher properties: unregister, disable and enable                   *)
(***************************************************************************)
\* the step is a call op(name) of the registry interface
RegistryCalled(ops) ==
    /\ hookCall'.op \in ops
    /\ <<registry, hookCall>>' # <<registry, hookCall>>

\* the positions of reg that hold a registration named name
Named(reg, name) == {i \in DOMAIN reg : reg[i].name = name}

\* C21: unregister(name) removes every registration with that name, on every
\* event, and returns how many it removed (0 when there was none); all other
\* registrations stay, with their relative order, priorities and enabled
\* flags unchanged.
C21_UnregisterRemovesByName ==
    [][RegistryCalled({"unregister"}) =>
          LET n == hookCall'.name IN
          /\ Named(registry', n) = {}
          /\ hookCall'.result = Cardinality(Named(registry, n))
          /\ registry' = SelectSeq(registry, LAMBDA r : r.name # n)]_vars

\* C21 witness: an unregister call has returned 2, having removed two
\* registrations from a registry of three; the third, of another name, stays.
C21_Witness ==
    /\ hookCall.op = "unregister"
    /\ hookCall.result = 2
    /\ Len(registry) = 1
    /\ registry[1].name # hookCall.name
    /\ nextId = 4

\* C22: disable(name) and enable(name) remove nothing and reorder nothing:
\* they change only the enabled flag of the registrations with that name. A
\* firing invokes the enabled registrations of its event in registry order
\* (up to a handler returning False) and no disabled one, so a re-enabled
\* handler is invoked at its original place.
C22_DisableMutesOnly ==
    /\ [][RegistryCalled({"disable", "enable"}) =>
            /\ Len(registry') = Len(registry)
            /\ \A i \in DOMAIN registry :
                  /\ registry'[i].name # hookCall'.name => registry'[i] = registry[i]
                  /\ registry'[i].name = hookCall'.name =>
                        /\ registry'[i].enabled = (hookCall'.op = "enable")
                        /\ [registry'[i] EXCEPT !.enabled = registry[i].enabled]
                              = registry[i]]_vars
    /\ [](LET el == Eligible(registry, lastFire.event)
              inv == lastFire.invoked IN
          /\ Len(inv) <= Len(el)
          /\ \A k \in DOMAIN inv : inv[k].id = el[k].id
          /\ Len(inv) < Len(el) =>
                /\ inv # <<>>
                /\ inv[Len(inv)].outcome = "false")

\* C22 witness: the first of two registrations for one event was disabled by
\* the latest call, the other has another name and is enabled, and a firing
\* of the event has invoked the second only.
C22_Witness ==
    /\ hookCall.op = "disable"
    /\ Len(registry) = 2
    /\ registry[1].name = hookCall.name /\ ~registry[1].enabled
    /\ registry[2].name # hookCall.name /\ registry[2].enabled
    /\ registry[1].event = registry[2].event
    /\ lastFire.event = registry[1].event
    /\ Len(lastFire.invoked) = 1
    /\ lastFire.invoked[1].id = registry[2].id

(***************************************************************************)
(* Orchestrator properties: vetoed steps, tool steps, planning, durations  *)
(***************************************************************************)
\* the step is a call of _execute_step (lines 295 of run_agent)
Executes == Len(entered') = Len(entered) + 1

\* the _execute_step call made by the step, as recorded
Entry == entered'[Len(entered')]

\* C23: when the agent-step event fired before a step is cancelled by a
\* handler, no collaborator is called for the step, the step ends skipped,
\* no failure decision is requested, the session status is not changed (so
\* not set to failed) and the loop goes on with the next step.
C23_VetoSkipsStep ==
    [][(Executes /\ Entry.vetoed) =>
          /\ calls' = calls
          /\ session'.steps[pos].status = "skipped"
          /\ agentPc' = "loop"
          /\ pos' = pos + 1
          /\ session'.status = session.status
          /\ session'.status = "running"]_vars

\* C23 witness: the first step was vetoed and is skipped, the second step was
\* executed after it and is done.
C23_Witness ==
    /\ Len(entered) = 2
    /\ entered[1].pos = 1 /\ entered[1].vetoed
    /\ entered[2].pos = 2 /\ ~entered[2].vetoed
    /\ session.steps[1].status = "skipped"
    /\ session.steps[2].status = "done"

\* the collaborator calls recorded for the step at position p
CallsAt(p, target) ==
    {k \in DOMAIN calls : calls[k].pos = p /\ calls[k].target = target}

\* C24: a tool (mcp) step whose call returned an error text ends failed and
\* its result is not forwarded to the host assistant; a non-error text is
\* forwarded and, the assistant accepting it, the step ends done.
C24_ToolErrorFailsStep ==
    \A k \in DOMAIN calls :
        calls[k].target = "mcp.call" =>
            /\ calls[k].result = "error_text" =>
                  /\ CallsAt(calls[k].pos, "coder.run") = {}
                  /\ session.steps[calls[k].pos].status = "failed"
            /\ calls[k].result = "text" =>
                  /\ CallsAt(calls[k].pos, "coder.run") # {}
                  /\ (\A j \in CallsAt(calls[k].pos, "coder.run") :
                         calls[j].result = "ok")
                        => session.steps[calls[k].pos].status = "done"

(***************************************************************************)
(* Server properties: faulty tools, the session map                        *)
(***************************************************************************)
\* C25: when a tool function raises during tools/call, the server still
\* answers with a tools/call result that carries the error text and is
\* flagged as an error, and the session stays valid.
C25_HandlerFaultFlagged ==
    \A k \in DOMAIN replies :
        replies[k].raised =>
            /\ replies[k].kind = "result"
            /\ replies[k].errorText
            /\ replies[k].isError
            /\ (\A j \in DOMAIN replies :
                   j > k /\ replies[j].verb = "DELETE" =>
                       replies[j].carried # replies[k].carried)
                  => ValidSession(sessions, replies[k].carried)

\* the answer is to a request that passed the admission test of line 396
CountedAnswer(a, sid) ==
    /\ a.verb = "POST"
    /\ a.method # "initialize"
    /\ a.carried = sid
    /\ a.kind # "invalid_session"

\* requests counted at line 401 whose answer is still to come
InFlight(sid) == IF serverPc = "running" /\ current.sid = sid THEN 1 ELSE 0

\* the session was closed by a request served before the k-th answer
ClosedBefore(sid, k) ==
    \E j \in 1..(k - 1) : replies[j].verb = "DELETE" /\ replies[j].carried = sid

\* C26: whatever order the clients' handshake, close and tool requests reach
\* the server in, (a) a request is either served as valid or rejected as
\* unknown, rejected exactly when its session was never issued or was closed
\* by a request served before it, and none ends in a fault; (b) a handshake
\* adds one fresh entry and leaves every other entry as it was; (c) the call
\* counter of a session equals the number of requests admitted on it.
C26_SessionMapConsistent ==
    /\ [](\A k \in DOMAIN replies :
             /\ replies[k].kind # "fault"
             /\ (replies[k].verb = "POST" /\ replies[k].method # "initialize") =>
                   (replies[k].kind = "invalid_session" <=>
                       \/ replies[k].carried \in {NoSid, UnknownSid}
                       \/ ClosedBefore(replies[k].carried, k)))
    /\ [][nextSid' # nextSid =>
             /\ nextSid \notin DOMAIN sessions
             /\ DOMAIN sessions' = DOMAIN sessions \cup {nextSid}
             /\ sessions'[nextSid] = 0
             /\ \A s \in DOMAIN sessions : sessions'[s] = sessions[s]]_vars
    /\ [](\A s \in DOMAIN sessions :
             sessions[s] = Cardinality({k \in DOMAIN replies :
                                           CountedAnswer(replies[k], s)})
                           + InFlight(s))

\* C26 witness: a handshake was served after a call on another session; both
\* sessions are in the map, the first with its one call counted.
C26_Witness ==
    /\ Len(replies) = 3
    /\ replies[1].kind = "initialized"
    /\ CountedAnswer(replies[2], replies[1].sid)
    /\ replies[3].kind = "initialized"
    /\ DOMAIN sessions = {replies[1].sid, replies[3].sid}
    /\ sessions[replies[1].sid] = 1
    /\ sessions[replies[3].sid] = 0

(***************************************************************************)
(* Orchestrator properties: planner responses, indexes, durations, failure *)
(***************************************************************************)
\* C27: for every planner response, a valid JSON value that is not an object
\* included, plan_goal returns a session or returns no session and never
\* raises; steps with missing fields get the defaults.
C27_PlanNeverRaises ==
    /\ agentPc # "raised"
    /\ runResult # "raised"
    /\ \A i \in DOMAIN session.steps :
          /\ "action" \notin DOMAIN plannerSteps[i] =>
                session.steps[i].action = "message"
          /\ "content" \notin DOMAIN plannerSteps[i] =>
                session.steps[i].content = ""

\* C28: in every session plan_goal returned, the step at position i of the
\* step list has index i, whatever index values the planner's response
\* carried or left out.
C28_IndexIsPosition ==
    \A i \in DOMAIN session.steps : session.steps[i].index = i

\* C29: every step _execute_step was called for has its duration recorded
\* when the call returns, whatever the outcome: done, failed (a failed skill
\* step included) or skipped by a handler veto.
C29_DurationRecorded ==
    \A k \in DOMAIN entered :
        /\ session.steps[entered[k].pos].status \in {"done", "failed", "skipped"}
        /\ session.steps[entered[k].pos].timed

\* the step is a call of _execute_step that ends with the step failed
FailsStep == Executes /\ session'.steps[pos].status = "failed"

\* C30: a step that is not a shell step and fails is put to the caller as a
\* decision and is never executed again; declining sets the session to failed
\* and no later step is executed, accepting goes on with the next step, and
\* the failed step keeps status failed either way.
C30_FailureIsDecided ==
    /\ [][(FailsStep /\ session.steps[pos].action # "shell") =>
             agentPc' = "failprompt" /\ pos' = pos]_vars
    /\ [][(agentPc = "failprompt" /\ agentPc' # "failprompt") =>
             /\ session'.steps = session.steps
             /\ session.steps[pos].status = "failed"
             /\ entered' = entered
             /\ \/ agentPc' = "summary" /\ session'.status = "failed"
                \/ /\ agentPc' = "loop" /\ pos' = pos + 1
                   /\ session'.status = "running"]_vars
    /\ [][session.status = "failed" => ~Executes]_vars
    /\ [][\A i \in DOMAIN session.steps \cap DOMAIN session'.steps :
             session.steps[i].status = "failed" =>
                session'.steps[i].status = "failed"]_vars
    /\ [](\A j, k \in DOMAIN entered : j < k => entered[j].pos < entered[k].pos)

\* C30 witness: the first step, a message step, failed and the caller went
\* on; the second, a skill step, failed and the caller declined: the session
\* is failed and both steps are failed.
C30_Witness ==
    /\ session.status = "failed"
    /\ Len(session.steps) = 2
    /\ Len(entered) = 2
    /\ session.steps[1].action = "message" /\ session.steps[1].status = "failed"
    /\ session.steps[2].action = "skill" /\ session.steps[2].status = "failed"
    /\ agentPc = "returned"

(***************************************************************************)
(* Orchestrator properties: done steps, ended runs, prompts                *)
(***************************************************************************)
\* the action kinds of AgentStep (line 32)
KnownActions == {"message", "skill", "shell", "mcp"}

\* C31: a step ends done only if its action was carried out: a step whose
\* action is not a known kind, or a tool step whose content is not of the
\* form server/tool, is not reported as done, and a done step had a
\* collaborator called for it.
C31_DoneMeansCarriedOut ==
    \A i \in DOMAIN session.steps :
        session.steps[i].status = "done" =>
            /\ session.steps[i].action \in KnownActions
            /\ session.steps[i].action = "mcp" =>
                  session.steps[i].content = "srv/tool"
            /\ \E k \in DOMAIN calls : calls[k].pos = i

\* the first position run_agent did not get to: the step an abort was
\* answered at (or the first, for a rejected plan), the one behind a declined
\* failure, none when the loop ran out
StopPoint ==
    CASE session.status = "cancelled" -> pos
      [] session.status = "failed" -> pos + 1
      [] OTHER -> Len(session.steps) + 1

\* C32: when a run ends, no step is running; every step from the point where
\* the run stopped (abort, declined failure, rejected plan) is pending and
\* was never executed; if the session ended done, every step is done, failed
\* or skipped.
C32_EndedRun ==
    (agentPc = "returned" /\ session # NoSession) =>
        /\ session.status \in Terminal
        /\ \A i \in DOMAIN session.steps :
              /\ session.steps[i].status # "running"
              /\ i >= StopPoint =>
                    /\ session.steps[i].status = "pending"
                    /\ \A k \in DOMAIN calls : calls[k].pos # i
                    /\ \A k \in DOMAIN entered : entered[k].pos # i
              /\ session.status = "done" =>
                    session.steps[i].status \in {"done", "failed", "skipped"}

\* C32 witness: a run of two steps ended failed at its first step; the second
\* step is pending.
C32_Witness ==
    /\ agentPc = "returned"
    /\ session.status = "failed"
    /\ Len(session.steps) = 2
    /\ session.steps[1].status = "failed"
    /\ session.steps[2].status = "pending"

\* run_agent stands in one of its input() calls
Prompting == agentPc \in {"approve", "confirm", "failprompt"}

\* C33: a run with auto-approval never waits for interactive input: plan
\* approval, per-step confirmation and the decision after a failed step are
\* all resolved without prompting the operator.
C33_AutoNeverPrompts == autoApprove => ~Prompting

\* C34: in a run without auto-approval no step is executed without an
\* operator approval directly before it: the plan approval covers the first
\* step of the plan, and every later step is executed only from its own
\* "Continue?" prompt, whatever index values the planner assigned.
C34_EveryStepConfirmed ==
    ~autoApprove =>
        \A k \in DOMAIN entered : entered[k].pos > 1 => entered[k].asked

(***************************************************************************)
(* Orchestrator properties: termination                                    *)
(***************************************************************************)
\* C37: every run that started executing eventually reaches a terminal
\* status and releases the active session; no step stays running forever,
\* even when a collaborator call never returns.
C37_RunTerminates ==
    (session.status = "running") ~>
        (session.status \in Terminal /\ ~activeSession)

(***************************************************************************)
(* Dispatcher properties: names                                            *)
(***************************************************************************)
\* C36: within any one event no two registrations in the registry share a
\* name, after any sequence of register calls (installing the same extension
\* hook more than once included).
C36_NamesUniquePerEvent ==
    \A i, j \in DOMAIN registry :
        (registry[i].event = registry[j].event
            /\ registry[i].name = registry[j].name) => i = j

(***************************************************************************)
(* Wrapped host operations                                                 *)
(***************************************************************************)
\* C35: for each wrapped host operation the before-event is fired first; if
\* that firing is cancelled the original operation is not called and the
\* after-event is not fired; if it is not cancelled the original is called
\* exactly once, and once it has returned the after-event is fired, once.
C35_VetoBlocksOperation ==
    wrapped # NoWrapped =>
        LET log == wrapped.log IN
        /\ log[1].kind = "fire" /\ log[1].event = Before(wrapped.op)
        /\ log[1].cancelled => Len(log) = 1
        /\ ~log[1].cancelled =>
              /\ Len(log) >= 2
              /\ log[2].kind = "original"
              /\ Cardinality({k \in DOMAIN log : log[k].kind = "original"}) = 1
              /\ wrapped.ended = "returned" =>
                    /\ Len(log) = 3
                    /\ log[3].kind = "fire" /\ log[3].event = After(wrapped.op)

\* C35 witness: a handler vetoed apply_edits while a handler for the
\* after-event was registered; only the before-event was fired.
C35_Witness ==
    /\ wrapped.op = "apply_edits"
    /\ wrapped.ended = "vetoed"
    /\ wrapped.log[1].cancelled
    /\ Len(wrapped.log) = 1
    /\ Eligible(registry, "post_edit") # <<>>

(***************************************************************************)
(* Server properties: the rebel_run gate                                   *)
(***************************************************************************)
\* the request numbered id waits to be taken up
Waits(id) == \E k \in DOMAIN backlog : backlog[k].id = id

\* the request numbered id has been answered
Answered(id) == \E k \in DOMAIN replies : replies[k].id = id

\* the rebel_run arguments _tool_rebel_run turns down before the gate
RejectedArgs == {"noprompt", "blocked", "escape", "nondict"}

\* C38: the gate around rebel_run is released on every exit path of the
\* guarded work (normal return, timeout, exception), so a taken gate is
\* eventually free and every waiting invocation is eventually served; an
\* invocation turned down by validation (empty prompt, blocked model, path
\* outside the project root) does not take the gate and starts no process.
C38_GateReleased ==
    /\ lockHeld ~> ~lockHeld
    /\ \A id \in 1..MaxRequests : Waits(id) ~> Answered(id)
    /\ [](lockHeld <=> serverPc = "running")
    /\ [][(Serves /\ Head(backlog).tool = "rebel_run"
              /\ Head(backlog).args \in RejectedArgs) =>
             /\ ~lockHeld /\ ~lockHeld'
             /\ procs' = procs
             /\ serverPc' = "idle"]_vars

\* C38 witness: a rebel_run invocation holds the gate after an earlier one
\* went through it and came back with exit code 0.
C38_Witness ==
    /\ serverPc = "running"
    /\ lockHeld
    /\ \E k \in DOMAIN replies :
          /\ replies[k].tool = "rebel_run"
          /\ replies[k].kind = "result"
          /\ ~replies[k].isError

(***************************************************************************)
(* Watch mode                                                              *)
(***************************************************************************)
\* the rebel-watch threads that have not left _watch_loop
LiveLoops == {t \in DOMAIN loops : loops[t] # "exited"}

\* the rebel-watch threads running the host assistant on an annotation
RunningTasks == {t \in DOMAIN loops : loops[t] = "run"}

\* C39: at most one watch task runs at any time under any sequence of start
\* and stop calls: there are never two watch loops polling at once, and never
\* two loops past the one-at-a-time check running the host assistant.
C39_OneWatchTask ==
    /\ Cardinality(LiveLoops) <= 1
    /\ Cardinality(RunningTasks) <= 1

(***************************************************************************)
(* YOLO mode                                                               *)
(***************************************************************************)
\* how many entries of the allowlist have the pattern
PatternCount(list, pattern) ==
    Cardinality({i \in DOMAIN list : list[i].pattern = pattern})

\* C40: activating and then deactivating YOLO mode restores the prior state
\* of the allowlist, of plan mode and of the coder's auto-yes flag; and
\* activating, once or twice, leaves no pattern in the allowlist twice.
C40_YoloReversible ==
    /\ (~yoloActive /\ yoloBefore # <<>>) =>
          /\ allowlist = yoloBefore[1].allowlist
          /\ planMode = yoloBefore[1].planMode
          /\ ioYes = yoloBefore[1].ioYes
    /\ \A k \in DOMAIN YOLO_EXTRA_PATTERNS :
          PatternCount(allowlist, YOLO_EXTRA_PATTERNS[k]) <= 1

====
